---- MODULE Spec2Model ----
(***************************************************************************)
(* A model of the sub-pixel shoreline extraction and point-cleaning        *)
(* pipeline of SAET (src/saet_tools.py): extractPoints, computeWeights,    *)
(* averagePoints / creaCluster / getClusters, cleanPoints2 / computeLST /  *)
(* cleanPointsByAngle / removeByAngle, makePointShp / makeLineShp and the  *)
(* scene-processing functions that chain them.                             *)
(*                                                                         *)
(* The module holds several specifications over one set of variables.      *)
(* Each specification drives one part of the program and leaves the        *)
(* variables of the other parts at their idle values:                      *)
(*   SpecScene    the per-scene stage chain and the pixel scan of          *)
(*                extractPoints                                            *)
(*   SpecCluster  averagePoints / creaCluster / getClusters                *)
(*   SpecWeights  computeWeights                                           *)
(*   SpecAngle    removeByAngle, one loop iteration per step               *)
(*   SpecClean    cleanPoints2 with computeLST, cleanPointsByAngle,        *)
(*                makePointShp and makeLineShp                             *)
(*   SpecLST      computeLST, one statement per step                       *)
(*   SpecBranch   mejor_curva_pendiente3, one branch per step              *)
(*   SpecDeriva   deriva and the Laplacian, one statement per step         *)
(*   SpecCoords   escribeCoords, one vertex per step                       *)
(***************************************************************************)
EXTENDS Integers, Sequences, FiniteSets, TLC

VARIABLES
    \* ---- scene processing (processLandsat8Scenes and its siblings) ----
    scene,        \* index of the scene of the batch being processed
    stage,        \* position in the stage chain of the current scene
    executed,     \* the stages called so far for the current scene, in order
    exported,     \* scenes whose shapefiles were copied to the SDS folder
    exit_status,  \* process exit status: -1 while running
    \* ---- extractPoints ----
    rows, columns,  \* raster dimensions (dim[0], dim[1])
    pl_data,        \* the set of <<f, c>> whose mask value is 255
    f, c,           \* loop variables of the pixel scan
    white_pixel,    \* local flag of extractPoints
    file_coord,     \* records of the raw point file base_name.d
    processed,      \* the boundary pixels handled so far: <<f, c, outcome>>
    res,            \* value returned by extractPoints: "unset", "True", "False"
    kernel_size,    \* the kernel size handed to extractPoints
    removed,        \* whether os.remove was called for an existing .d file
    sub,            \* the window last taken: <<row indices, column indices>>
    points_xy,      \* the buffers points_x and points_y: the vertices held
    medias,         \* the averaged point file base_name.m: "unset", "empty", "some"
    \* ---- averagePoints / creaCluster ----
    datos,             \* raw points read from the .d file: sequence of <<x, y>>
    pesos,             \* their weights, same order
    cluster_distance,  \* argument of averagePoints
    min_cluster_size,  \* argument of averagePoints
    average_points,    \* the list creaCluster builds
    cl_stage,          \* "idle", "read", "xdone", "done"
    \* ---- computeWeights ----
    kernel, ppp,       \* arguments of computeWeights
    wm,                \* the matrix p, a function of <<i, j>>, cells from 0
    wi, wj,            \* loop variables i and j
    cont_i, cont_j,    \* the counters cont_i and cont_j
    wm_stage,          \* "idle", "loop", "done"
    \* ---- removeByAngle ----
    puntos,            \* the path: sequence of <<x, y>>
    tol_rba,           \* the angle tolerance, degrees
    ra_i,              \* loop variable i (from 0)
    final_points,      \* the list being built
    angs,              \* the value of ang computed for each interior point
    ra_stage,          \* "idle", "loop", "done"
    \* ---- cleanPoints2 / makePointShp / makeLineShp ----
    layer,             \* the point layer: sequence of features
    ids,               \* the list ids
    groups,            \* the list groups: one sequence of <<x, y>> per id
    identifiers,       \* the list identifiers, same order as groups
    grp_i,             \* loop variable i of the group loop (from 0)
    clean_geometries,  \* the list of <<clean_points, identifier>>
    caught,            \* values of i whose exception `except: pass` swallowed
    cp_shp,            \* features of the point shapefile *_cp.shp
    cl_shp,            \* features of the line shapefile *_cl.shp
    cp_stage,          \* "idle", "open", "loop", "points", "done", "crashed"
    \* ---- computeLST ----
    lst_points,        \* the argument puntos: sequence of <<x, y>>
    lst_tri,           \* the argument lista_tri: set of triangles
    lst_mst,           \* MST: set of edges
    lst_indice1,       \* indice1, -1 before it is set
    lst_indice2,       \* indice2, -1 before it is set
    lst_final,         \* final: sequence of node indices
    lst_stage,         \* "idle", "graph", "mst", "first", "second", "done"
    \* ---- mejor_curva_pendiente3 ----
    contours,          \* the argument v: per branch the scores p*peso of its vertices
    mc_i,              \* loop variable i (from 0)
    p_max,             \* p_max as <<numerator, denominator>>
    candidate,         \* candidate
    mc_stage,          \* "idle", "loop", "done"
    \* ---- deriva and the Laplacian of extractPoints ----
    dv_m,              \* m, the coefficient matrix: sequence of rows
    dv_dx,             \* dx
    dv_d2x,            \* d2x
    dv_dy,             \* dy
    dv_d2y,            \* d2y
    laplaciano,        \* laplaciano
    dv_stage,          \* "idle", "fitted", "dx", "d2x", "dy", "d2y", "done"
    \* ---- escribeCoords ----
    ec_kernel,         \* the argument kernel
    ec_ppp,            \* points per pixel: resol_orig / resol
    ec_x, ec_y,        \* the arguments x and y: vertex coordinates
    ec_xmin, ec_ymax,  \* the arguments xmin and ymax
    ec_fil, ec_col,    \* the arguments fil and col
    ec_i,              \* loop variable i (from 0)
    output_file,       \* the lines written: <<rx, ry, peso>>
    ec_stage           \* "idle", "loop", "done"

sceneVars == <<scene, stage, executed, exported, exit_status, medias>>
extractVars == <<rows, columns, pl_data, f, c, white_pixel, file_coord, processed, res,
                 kernel_size, removed, sub, points_xy>>
clusterVars == <<datos, pesos, cluster_distance, min_cluster_size, average_points,
                 cl_stage>>
weightVars == <<kernel, ppp, wm, wi, wj, cont_i, cont_j, wm_stage>>
angleVars == <<puntos, tol_rba, ra_i, final_points, angs, ra_stage>>
cleanVars == <<layer, ids, groups, identifiers, grp_i, clean_geometries, caught,
               cp_shp, cl_shp, cp_stage>>
lstVars == <<lst_points, lst_tri, lst_mst, lst_indice1, lst_indice2, lst_final,
             lst_stage>>
branchVars == <<contours, mc_i, p_max, candidate, mc_stage>>
derivaVars == <<dv_m, dv_dx, dv_d2x, dv_dy, dv_d2y, laplaciano, dv_stage>>
coordsVars == <<ec_kernel, ec_ppp, ec_x, ec_y, ec_xmin, ec_ymax, ec_fil, ec_col, ec_i,
                output_file, ec_stage>>
vars == <<sceneVars, extractVars, clusterVars, weightVars, angleVars, cleanVars,
          lstVars, branchVars, derivaVars, coordsVars>>

(***************************************************************************)
(* Each specification starts the other parts idle and never changes them.  *)
(***************************************************************************)
SceneIdle ==
    /\ scene = 0 /\ stage = "idle" /\ executed = <<>> /\ exported = {}
    /\ exit_status = -1 /\ medias = "unset"
    /\ rows = 0 /\ columns = 0 /\ pl_data = {} /\ f = 0 /\ c = 0
    /\ white_pixel = FALSE /\ file_coord = <<>> /\ processed = <<>>
    /\ res = "unset"
    /\ kernel_size = 0 /\ removed = FALSE /\ sub = <<{}, {}>> /\ points_xy = <<>>

ClusterIdle ==
    /\ datos = <<>> /\ pesos = <<>> /\ cluster_distance = 0 /\ min_cluster_size = 0
    /\ average_points = <<>> /\ cl_stage = "idle"

WeightsIdle ==
    /\ kernel = 0 /\ ppp = 0 /\ wm = <<>> /\ wi = 0 /\ wj = 0
    /\ cont_i = 0 /\ cont_j = 0 /\ wm_stage = "idle"

AngleIdle ==
    /\ puntos = <<>> /\ tol_rba = 0 /\ ra_i = 0 /\ final_points = <<>> /\ angs = <<>>
    /\ ra_stage = "idle"

CleanIdle ==
    /\ layer = <<>> /\ ids = <<>> /\ groups = <<>> /\ identifiers = <<>>
    /\ grp_i = 0 /\ clean_geometries = <<>> /\ caught = {}
    /\ cp_shp = <<>> /\ cl_shp = <<>> /\ cp_stage = "idle"

LstIdle ==
    /\ lst_points = <<>> /\ lst_tri = {} /\ lst_mst = {} /\ lst_indice1 = -1
    /\ lst_indice2 = -1 /\ lst_final = <<>> /\ lst_stage = "idle"

BranchIdle ==
    /\ contours = <<>> /\ mc_i = 0 /\ p_max = <<0, 1>> /\ candidate = -1
    /\ mc_stage = "idle"

DerivaIdle ==
    /\ dv_m = <<>> /\ dv_dx = <<>> /\ dv_d2x = <<>> /\ dv_dy = <<>> /\ dv_d2y = <<>>
    /\ laplaciano = <<>> /\ dv_stage = "idle"

CoordsIdle ==
    /\ ec_kernel = 0 /\ ec_ppp = 0 /\ ec_x = <<>> /\ ec_y = <<>> /\ ec_xmin = 0
    /\ ec_ymax = 0 /\ ec_fil = 0 /\ ec_col = 0 /\ ec_i = 0 /\ output_file = <<>>
    /\ ec_stage = "idle"

SceneOnly ==
    UNCHANGED <<clusterVars, weightVars, angleVars, cleanVars, lstVars,
                branchVars, derivaVars, coordsVars>>
ClusterOnly ==
    UNCHANGED <<sceneVars, extractVars, weightVars, angleVars, cleanVars,
                lstVars, branchVars, derivaVars, coordsVars>>
WeightsOnly ==
    UNCHANGED <<sceneVars, extractVars, clusterVars, angleVars, cleanVars,
                lstVars, branchVars, derivaVars, coordsVars>>
AngleOnly ==
    UNCHANGED <<sceneVars, extractVars, clusterVars, weightVars, cleanVars,
                lstVars, branchVars, derivaVars, coordsVars>>
CleanOnly ==
    UNCHANGED <<sceneVars, extractVars, clusterVars, weightVars, angleVars,
                lstVars, branchVars, derivaVars, coordsVars>>
LstOnly ==
    UNCHANGED <<sceneVars, extractVars, clusterVars, weightVars, angleVars,
                cleanVars, branchVars, derivaVars, coordsVars>>
BranchOnly ==
    UNCHANGED <<sceneVars, extractVars, clusterVars, weightVars, angleVars,
                cleanVars, lstVars, derivaVars, coordsVars>>
DerivaOnly ==
    UNCHANGED <<sceneVars, extractVars, clusterVars, weightVars, angleVars, cleanVars,
                lstVars, branchVars, coordsVars>>
CoordsOnly ==
    UNCHANGED <<sceneVars, extractVars, clusterVars, weightVars, angleVars, cleanVars,
                lstVars, branchVars, derivaVars>>

(***************************************************************************)
(* Bounds of the model.                                                    *)
(***************************************************************************)
NumScenes == 3      \* scenes in the batch list
MaxRows == 21       \* raster rows range over 2*offset .. MaxRows
MaxColumns == 22    \* raster columns range over 2*offset .. MaxColumns
MaxVerts == 2       \* vertices of a winning contour branch: 1 .. MaxVerts
MaxPts == 3         \* raw points read by averagePoints: 1 .. MaxPts
MaxPpp == 4         \* points per pixel: 1 .. MaxPpp
MaxPath == 4        \* points of a path given to removeByAngle: 1 .. MaxPath
MaxNodes == 5      \* points of a group handed to computeLST
MaxBranches == 3   \* contour branches in v: 1 .. MaxBranches

(***************************************************************************)
(* extractPoints                                                           *)
(***************************************************************************)
offset == 10
min_cluster_size_default == 3

\* A vertex of a contour branch is <<fil, col, i>>: vertex i of the winning
\* branch of the pixel at (fil, col). A record of the raw point file is
\* <<fil, col, vertex>>: the line escribeCoords writes for that vertex when
\* called with fil and col.

\* The record a raw point file left by an earlier run holds.
StaleRecord == <<0, 0, <<0, 0, 0>>>>

\* --ks: kernel size for points extraction (3,5)
KernelSizes == {3, 5}

\* Pixels the mask may mark 255: two inside the margin when the raster is
\* large enough, the others in the border margin.
MaskCandidates(nrows, ncolumns) ==
    { p \in { <<offset - 1, offset>>, <<offset, offset>>, <<offset, offset + 1>>,
              <<nrows - offset, offset>>, <<offset, ncolumns - offset>> } :
        p[1] < nrows /\ p[2] < ncolumns }

f1 == offset
c1 == offset
\* Mutant of f2: the scan runs one row further.
f2_OneRowMore == rows - offset + 1

f2 == rows - offset
c2 == columns - offset

\* range(f1, f2) x range(c1, c2) visits nothing
ScanEmpty == f2 <= f1 \/ c2 <= c1

\* The per-pixel result of verticeslaplaciano and mejor_curva_pendiente3:
\*   "None"        contour or get_contour_verts raised inside the try of
\*                 verticeslaplaciano, v is None
\*   "Empty"       no zero-level contour, v == []
\*   "NoIndex"     contours exist and mejor_curva_pendiente3 returned -1
\*   "Points"      the winning branch has n >= 1 vertices
\*   "EvalRaises"  polyval2d raised: at line 4894, before the try of
\*                 verticeslaplaciano, or at lines 4965-4966 in
\*                 mejor_curva_pendiente3, which has no try
PixelOutcomes == {"None", "Empty", "NoIndex"}

\* if os.path.isfile(...): os.remove(...), then open(..., 'a')
\* Mutant of RemoveExisting: the file is opened for appending as it is.
RemoveExisting_Keeps(file) == file

RemoveExisting(file) == <<>>

\* gap = int(kernel/2)
\* Mutant of gap: the whole kernel size.
gap_Whole(k) == k

gap(k) == k \div 2

\* the indices a[start:stop] takes from an axis of length dim: a negative
\* index counts from the end, an index past an end is clipped
SliceIndex(ix, dim) ==
    IF ix < 0 THEN (IF ix + dim < 0 THEN 0 ELSE ix + dim)
              ELSE (IF ix > dim THEN dim ELSE ix)
PySlice(start, stop, dim) == SliceIndex(start, dim)..(SliceIndex(stop, dim) - 1)

\* sub = source_data[nf-gap:nf+kernel-gap, nc-gap:nc+kernel-gap]
Window(nf, ncol, k) ==
    <<PySlice(nf - gap(k), nf + k - gap(k), rows),
      PySlice(ncol - gap(k), ncol + k - gap(k), columns)>>

\* linea = v[indice]: the n vertices of the winning branch of the pixel
Linea(fil, col, n) == [i \in 1..n |-> <<fil, col, i>>]

\* escribeCoords: one record per vertex handed over in points_x, points_y
escribeCoords(buf, fil, col) == [i \in 1..Len(buf) |-> <<fil, col, buf[i]>>]

\* the loop position after (f, c): <<next f, next c>>
NextPixel(ff, cc) == IF cc + 1 < c2 THEN <<ff, cc + 1>> ELSE <<ff + 1, c1>>

(***************************************************************************)
(* computeWeights, normcdf, erfcc                                          *)
(*                                                                         *)
(* A cell value is normcdf(-d, 0, 3)*2 with d the distance of the cell     *)
(* counters from ((f+1)/2, (c+1)/2). The counters are whole numbers and    *)
(* the centre a multiple of 1/2, so 4*d*d is a whole number and the value  *)
(* is a function of it. NormTable holds that function: the value of lines  *)
(* 4764-4766 (normcdf and erfcc evaluated in double precision) times 10^9, *)
(* rounded, for every 4*d*d that occurs in a matrix of side <= 25.         *)
(***************************************************************************)
Kernels == {1, 3, 5}    \* odd kernel sizes

NormTable ==
    (0 :> 1000000030) @@ (2 :> 813663751) @@ (4 :> 738882693) @@ (8 :> 637351850) @@
    (10 :> 598161406) @@ (16 :> 504985038) @@ (18 :> 479500092) @@ (20 :> 456056518) @@
    (26 :> 395415944) @@ (32 :> 345778596) @@ (34 :> 331137472) @@ (36 :> 317310523) @@
    (40 :> 291840562) @@ (50 :> 238592846) @@ (52 :> 229421500) @@ (58 :> 204335697) @@
    (64 :> 182422449) @@ (68 :> 169327304) @@ (72 :> 157299212) @@ (74 :> 151651936) @@
    (80 :> 136037130) @@ (82 :> 131239798) @@ (90 :> 113846297) @@ (98 :> 98960151) @@
    (100 :> 95580701) @@ (104 :> 89192415) @@ (106 :> 86173321) @@ (116 :> 72644943) @@
    (122 :> 65637162) @@ (128 :> 59346434) @@ (130 :> 57394757) @@ (136 :> 51937591) @@
    (144 :> 45500260) @@ (146 :> 44026226) @@ (148 :> 42602361) @@ (160 :> 35014978) @@
    (162 :> 33894850) @@ (164 :> 32812114) @@ (170 :> 29775237) @@ (178 :> 26174647) @@
    (180 :> 25347316) @@ (194 :> 20265369) @@ (196 :> 19630656) @@ (200 :> 18422124) @@
    (202 :> 17846942) @@ (208 :> 16230047) @@ (212 :> 15236710) @@ (218 :> 13862613) @@
    (226 :> 12226131) @@ (232 :> 11129984) @@ (234 :> 10787449) @@ (242 :> 9521891) @@
    (244 :> 9229973) @@ (250 :> 8407994) @@ (256 :> 7660761) @@ (260 :> 7200651) @@
    (272 :> 5982535) @@ (274 :> 5800973) @@ (288 :> 4677735) @@ (290 :> 4536433) @@
    (292 :> 4399475) @@ (296 :> 4138050) @@ (298 :> 4013322) @@ (306 :> 3551465) @@
    (314 :> 3143547) @@ (320 :> 2869113) @@ (324 :> 2699796) @@ (328 :> 2540615) @@
    (338 :> 2183045) @@ (340 :> 2117897) @@ (346 :> 1934036) @@ (356 :> 1662798) @@
    (360 :> 1565402) @@ (362 :> 1518892) @@ (370 :> 1346420) @@ (386 :> 1058565) @@
    (388 :> 1027259) @@ (392 :> 967429) @@ (394 :> 938847) @@ (400 :> 858121) @@
    (404 :> 808237) @@ (410 :> 738847) @@ (416 :> 675471) @@ (424 :> 599420) @@
    (436 :> 501223) @@ (442 :> 458384) @@ (450 :> 406952) @@ (452 :> 395030) @@
    (458 :> 361336) @@ (464 :> 330539) @@ (466 :> 320872) @@ (468 :> 311491) @@
    (482 :> 253119) @@ (484 :> 245733) @@ (488 :> 231605) @@ (490 :> 224851) @@
    (500 :> 193942) @@ (512 :> 162441) @@ (514 :> 157716) @@ (520 :> 144355) @@
    (522 :> 140160) @@ (530 :> 124569) @@ (538 :> 110724) @@ (544 :> 101365) @@
    (548 :> 95572) @@ (554 :> 87501) @@ (562 :> 77796) @@ (576 :> 63342) @@
    (578 :> 61511) @@ (580 :> 59733) @@ (584 :> 56329) @@ (586 :> 54702) @@
    (592 :> 50097) @@ (596 :> 47245) @@ (610 :> 38490) @@ (612 :> 37380) @@
    (628 :> 29583) @@ (640 :> 24827) @@ (648 :> 22090) @@ (650 :> 21455) @@
    (656 :> 19657) @@ (666 :> 16990) @@ (676 :> 14687) @@ (680 :> 13856) @@
    (698 :> 10663) @@ (720 :> 7744) @@ (722 :> 7522) @@ (724 :> 7307) @@
    (730 :> 6697) @@ (740 :> 5793) @@ (754 :> 4728) @@ (772 :> 3642) @@
    (800 :> 2428) @@ (802 :> 2359) @@ (808 :> 2163) @@ (818 :> 1872) @@
    (832 :> 1529) @@ (882 :> 743) @@ (884 :> 722) @@ (890 :> 662) @@
    (900 :> 573) @@ (968 :> 215) @@ (970 :> 209) @@ (976 :> 192) @@
    (1058 :> 59) @@ (1060 :> 58) @@ (1152 :> 15)

\* Mutant of Dist2x4: the centre taken at f/2 and c/2 instead of (f+1)/2 and
\* (c+1)/2 (counters that start at 1 measured against a centre that counts
\* from 0).
Dist2x4_CentreFromZero(ci, cj, nf, nc) ==
    (2 * ci - nf) * (2 * ci - nf) + (2 * cj - nc) * (2 * cj - nc)

\* 4 * d * d for the counters cont_i, cont_j in a matrix of nf rows, nc columns
Dist2x4(ci, cj, nf, nc) ==
    (2 * ci - (nf + 1)) * (2 * ci - (nf + 1)) + (2 * cj - (nc + 1)) * (2 * cj - (nc + 1))

\* p[i, j] = normcdf(-d, 0, 3)*2
CellValue(ci, cj, nf, nc) == NormTable[Dist2x4(ci, cj, nf, nc)]

\* f, c = p.shape
Side == kernel * ppp

InitWeights ==
    /\ kernel \in Kernels
    /\ ppp \in 1..MaxPpp
    /\ wm = [cell \in (0..(kernel * ppp - 1)) \X (0..(kernel * ppp - 1)) |-> 0]
    /\ wi = 0 /\ wj = 0
    /\ cont_i = 1 /\ cont_j = 1
    /\ wm_stage = "loop"
    /\ SceneIdle
    /\ ClusterIdle
    /\ AngleIdle
    /\ CleanIdle
    /\ LstIdle
    /\ BranchIdle
    /\ DerivaIdle
    /\ CoordsIdle

\* the body of `for j in range(0, c)`
WeightsCell ==
    /\ WeightsOnly
    /\ wm_stage = "loop"
    /\ wi < Side /\ wj < Side
    /\ wm' = [wm EXCEPT ![<<wi, wj>>] = CellValue(cont_i, cont_j, Side, Side)]
    /\ cont_j' = cont_j + 1
    /\ wj' = wj + 1
    /\ UNCHANGED <<kernel, ppp, wi, cont_i, wm_stage>>

\* the end of the inner loop: cont_i += 1; cont_j = 1
WeightsRowEnd ==
    /\ WeightsOnly
    /\ wm_stage = "loop"
    /\ wi < Side /\ wj = Side
    /\ cont_i' = cont_i + 1
    /\ cont_j' = 1
    /\ wi' = wi + 1
    /\ wj' = 0
    /\ UNCHANGED <<kernel, ppp, wm, wm_stage>>

\* return p
WeightsReturn ==
    /\ WeightsOnly
    /\ wm_stage = "loop"
    /\ wi = Side
    /\ wm_stage' = "done"
    /\ UNCHANGED <<kernel, ppp, wm, wi, wj, cont_i, cont_j>>

NextWeights == WeightsCell \/ WeightsRowEnd \/ WeightsReturn

SpecWeights == InitWeights /\ [][NextWeights]_vars

(***************************************************************************)
(* averagePoints, creaCluster, getClusters                                 *)
(*                                                                         *)
(* Coordinates and weights are integers. A weighted mean is the pair       *)
(* <<sum of weight*coordinate, sum of weights>>; two means are equal when  *)
(* the cross products are.                                                 *)
(***************************************************************************)
XValues == {0, 1}       \* raw point X coordinates
YValues == {0, 1, 3}    \* raw point Y coordinates
Weights == {1, 3}       \* raw point weights (weight matrix values are > 0)
ClusterDistances == {1, 2}
MinClusterSizes == {1, 2, 3}

RECURSIVE SumSeq(_)
SumSeq(s) == IF s = <<>> THEN 0 ELSE Head(s) + SumSeq(Tail(s))

\* np.unique: the distinct values, ascending
RECURSIVE Ascending(_)
Ascending(S) ==
    IF S = {} THEN <<>>
    ELSE LET m == CHOOSE v \in S : \A w \in S : v <= w
         IN <<m>> \o Ascending(S \ {m})

Unique(values) == Ascending({values[i] : i \in 1..Len(values)})

\* coord.sort()
Sorted(coord) == SortSeq(coord, LAMBDA a, b : a < b)

\* np.nonzero(d[:, k] == v): the positions, ascending
Nonzero(col, v) == SelectSeq([i \in 1..Len(col) |-> i], LAMBDA i : col[i] = v)

\* fancy indexing a[idx]
Take(a, idx) == [k \in 1..Len(idx) |-> a[idx[k]]]

\* np.average(cluster, weights=p_cluster)
Average(cluster, p_cluster) ==
    << SumSeq([k \in 1..Len(cluster) |-> cluster[k] * p_cluster[k]]),
       SumSeq(p_cluster) >>

\* The first loop of getClusters over the sorted coord: the clusters of sorted
\* positions. `cluster` is the open cluster, `clusters` the closed ones, i the
\* loop variable (positions count from 1 here, from 0 in the code).
RECURSIVE GroupSorted(_, _, _, _, _)
GroupSorted(coord, tol, i, clusters, cluster) ==
    IF i > Len(coord) - 1 THEN Append(clusters, cluster)
    ELSE IF coord[i + 1] - coord[i] <= tol
         THEN GroupSorted(coord, tol, i + 1, clusters, Append(cluster, i + 1))
         ELSE GroupSorted(coord, tol, i + 1, Append(clusters, cluster), <<i + 1>>)

\* a, = np.where(orig_coord == v); a[0]
FirstWhere(orig_coord, v) ==
    CHOOSE k \in 1..Len(orig_coord) :
        orig_coord[k] = v /\ \A j \in 1..(k - 1) : orig_coord[j] # v

\* getClusters: pos, the clusters as positions in orig_coord
getClusters(orig_coord, tol) ==
    LET coord == Sorted(orig_coord)
        clusters == GroupSorted(coord, tol, 1, <<>>, <<1>>)
    IN [n \in 1..Len(clusters) |->
          [k \in 1..Len(clusters[n]) |-> FirstWhere(orig_coord, coord[clusters[n][k]])]]

\* The body of `for x in ex` (and of `for y in ey`): shared is the column of
\* the scanned axis, other the column that is averaged, v the value of the
\* scanned axis. The result is the list of means appended for v.
RECURSIVE MeansOf(_, _, _, _)
MeansOf(pos, orig_coord, pe, min_size) ==
    IF pos = <<>> THEN <<>>
    ELSE LET cp == Head(pos)
             cluster == Take(orig_coord, cp)
         IN (IF Len(cluster) >= min_size
             THEN << Average(cluster, Take(pe, cp)) >>
             ELSE <<>>)
            \o MeansOf(Tail(pos), orig_coord, pe, min_size)

clusterAt(shared, other, pw, v, tol, min_size) ==
    LET id == Nonzero(shared, v)
        co == Take(other, id)
        pe == Take(pw, id)
    IN IF Len(co) >= 2
       THEN MeansOf(getClusters(co, tol), co, pe, min_size)
       ELSE <<>>

Column(dd, k) == [i \in 1..Len(dd) |-> dd[i][k]]

\* clustering in x-axis: the points [x, media_y], each coordinate a mean pair
RECURSIVE clusterX(_, _, _, _, _)
clusterX(dd, pw, ex, tol, min_size) ==
    IF ex = <<>> THEN <<>>
    ELSE LET x == Head(ex)
             ms == clusterAt(Column(dd, 1), Column(dd, 2), pw, x, tol, min_size)
         IN [k \in 1..Len(ms) |-> << <<x, 1>>, ms[k] >>]
            \o clusterX(dd, pw, Tail(ex), tol, min_size)

\* clustering in y-axis: the points [media_x, y]
RECURSIVE clusterY(_, _, _, _, _)
clusterY(dd, pw, ey, tol, min_size) ==
    IF ey = <<>> THEN <<>>
    ELSE LET y == Head(ey)
             ms == clusterAt(Column(dd, 2), Column(dd, 1), pw, y, tol, min_size)
         IN [k \in 1..Len(ms) |-> << ms[k], <<y, 1>> >>]
            \o clusterY(dd, pw, Tail(ey), tol, min_size)

creaCluster(dd, pw, ex, ey, tol, min_size) ==
    clusterX(dd, pw, ex, tol, min_size) \o clusterY(dd, pw, ey, tol, min_size)

\* the raw point files averagePoints may read
RawPoints == XValues \X YValues

\* Scenario B of the specification: seven points at one X
ScenarioB_datos == << <<0, 10>>, <<0, 11>>, <<0, 12>>, <<0, 50>>, <<0, 51>>,
                     <<0, 52>>, <<0, 53>> >>

InitCluster ==
    /\ \/ /\ \E n \in 1..MaxPts :
               /\ datos \in [1..n -> RawPoints]
               /\ pesos \in [1..n -> Weights]
          /\ cluster_distance \in ClusterDistances
          /\ min_cluster_size \in MinClusterSizes
       \/ /\ datos = ScenarioB_datos
          /\ pesos \in [1..7 -> {1}]
          /\ cluster_distance = 3
          /\ min_cluster_size = 3
    /\ average_points = <<>>
    /\ cl_stage = "read"
    /\ SceneIdle
    /\ WeightsIdle
    /\ AngleIdle
    /\ CleanIdle
    /\ LstIdle
    /\ BranchIdle
    /\ DerivaIdle
    /\ CoordsIdle

\* creaCluster, first loop
ClusterXAxis ==
    /\ ClusterOnly
    /\ cl_stage = "read"
    /\ average_points' = clusterX(datos, pesos, Unique(Column(datos, 1)),
                                  cluster_distance, min_cluster_size)
    /\ cl_stage' = "xdone"
    /\ UNCHANGED <<datos, pesos, cluster_distance, min_cluster_size>>

\* creaCluster, second loop, and the return
ClusterYAxis ==
    /\ ClusterOnly
    /\ cl_stage = "xdone"
    /\ average_points' = average_points \o
            clusterY(datos, pesos, Unique(Column(datos, 2)),
                     cluster_distance, min_cluster_size)
    /\ cl_stage' = "done"
    /\ UNCHANGED <<datos, pesos, cluster_distance, min_cluster_size>>

NextCluster == ClusterXAxis \/ ClusterYAxis

SpecCluster == InitCluster /\ [][NextCluster]_vars

(***************************************************************************)
(* removeByAngle                                                           *)
(*                                                                         *)
(* Points lie on the grid Coords x Coords. Angles are whole numbers of     *)
(* micro-degrees: Atan2Table[<<dy, dx>>] is degrees(atan2(dy, dx)) * 10^6, *)
(* rounded, for dy and dx in -3..3. For every pair of such directions and  *)
(* every tolerance of Tolerances the comparison ang >= tol has the same    *)
(* outcome on these values as in double precision.                         *)
(***************************************************************************)
Coords == 0..2
Tolerances == {90, 150, 180}
Micro == 1000000
FullTurn == 360 * Micro

Atan2Table ==
    (<<-3, -3>> :> -135000000) @@ (<<-3, -2>> :> -123690068) @@ (<<-3, -1>> :> -108434949) @@ (<<-3, 0>> :> -90000000) @@ (<<-3, 1>> :> -71565051) @@ (<<-3, 2>> :> -56309932) @@ (<<-3, 3>> :> -45000000) @@
    (<<-2, -3>> :> -146309932) @@ (<<-2, -2>> :> -135000000) @@ (<<-2, -1>> :> -116565051) @@ (<<-2, 0>> :> -90000000) @@ (<<-2, 1>> :> -63434949) @@ (<<-2, 2>> :> -45000000) @@ (<<-2, 3>> :> -33690068) @@
    (<<-1, -3>> :> -161565051) @@ (<<-1, -2>> :> -153434949) @@ (<<-1, -1>> :> -135000000) @@ (<<-1, 0>> :> -90000000) @@ (<<-1, 1>> :> -45000000) @@ (<<-1, 2>> :> -26565051) @@ (<<-1, 3>> :> -18434949) @@
    (<<0, -3>> :> 180000000) @@ (<<0, -2>> :> 180000000) @@ (<<0, -1>> :> 180000000) @@ (<<0, 0>> :> 0) @@ (<<0, 1>> :> 0) @@ (<<0, 2>> :> 0) @@ (<<0, 3>> :> 0) @@
    (<<1, -3>> :> 161565051) @@ (<<1, -2>> :> 153434949) @@ (<<1, -1>> :> 135000000) @@ (<<1, 0>> :> 90000000) @@ (<<1, 1>> :> 45000000) @@ (<<1, 2>> :> 26565051) @@ (<<1, 3>> :> 18434949) @@
    (<<2, -3>> :> 146309932) @@ (<<2, -2>> :> 135000000) @@ (<<2, -1>> :> 116565051) @@ (<<2, 0>> :> 90000000) @@ (<<2, 1>> :> 63434949) @@ (<<2, 2>> :> 45000000) @@ (<<2, 3>> :> 33690068) @@
    (<<3, -3>> :> 135000000) @@ (<<3, -2>> :> 123690068) @@ (<<3, -1>> :> 108434949) @@ (<<3, 0>> :> 90000000) @@ (<<3, 1>> :> 71565051) @@ (<<3, 2>> :> 56309932) @@ (<<3, 3>> :> 45000000)

\* atan2(y, x), micro-degrees
atan2(y, x) == Atan2Table[<<y, x>>]

\* lines 5541-5544: the angle at b between a (before) and c (after)
TurnAngle(a, b, cc) ==
    LET ang == atan2(cc[2] - b[2], cc[1] - b[1]) - atan2(a[2] - b[2], a[1] - b[1])
    IN IF ang < 0 THEN ang + FullTurn ELSE ang

\* Mutant of KeepsPoint: a point at exactly the tolerance is dropped.
KeepsPoint_Strict(ang, t) == ang > t * Micro

\* if ang >= tol: the point is kept
KeepsPoint(ang, t) == ang >= t * Micro

InitAngle ==
    /\ \E n \in 1..MaxPath : puntos \in [1..n -> Coords \X Coords]
    /\ tol_rba \in Tolerances
    /\ ra_i = 0
    /\ final_points = <<>>
    /\ angs = <<>>
    /\ ra_stage = "loop"
    /\ SceneIdle
    /\ ClusterIdle
    /\ WeightsIdle
    /\ CleanIdle
    /\ LstIdle
    /\ BranchIdle
    /\ DerivaIdle
    /\ CoordsIdle

\* Mutant of LoopAngle: the angle is taken from the last point kept instead
\* of the predecessor in the path.
LoopAngle_FromLastKept ==
    TurnAngle(IF final_points = <<>> THEN puntos[1]
              ELSE final_points[Len(final_points)],
              puntos[ra_i + 2], puntos[ra_i + 3])

\* the point puntos[i+1] of the code, positions from 1 here
LoopAngle == TurnAngle(puntos[ra_i + 1], puntos[ra_i + 2], puntos[ra_i + 3])

\* loop body, ang >= tol_rba
AngleKeep ==
    /\ AngleOnly
    /\ ra_stage = "loop"
    /\ ra_i < Len(puntos) - 2
    /\ KeepsPoint(LoopAngle, tol_rba)
    /\ final_points' = Append(final_points, puntos[ra_i + 2])
    /\ angs' = Append(angs, LoopAngle)
    /\ ra_i' = ra_i + 1
    /\ UNCHANGED <<puntos, tol_rba, ra_stage>>

\* loop body, ang < tol_rba
AngleDrop ==
    /\ AngleOnly
    /\ ra_stage = "loop"
    /\ ra_i < Len(puntos) - 2
    /\ ~KeepsPoint(LoopAngle, tol_rba)
    /\ angs' = Append(angs, LoopAngle)
    /\ ra_i' = ra_i + 1
    /\ UNCHANGED <<puntos, tol_rba, final_points, ra_stage>>

\* final_points.insert(0, puntos[0]); final_points.append(puntos[len-1])
Endpoints(kept, path) == <<path[1]>> \o kept \o <<path[Len(path)]>>

AngleReturn ==
    /\ AngleOnly
    /\ ra_stage = "loop"
    /\ ra_i >= Len(puntos) - 2
    /\ final_points' = Endpoints(final_points, puntos)
    /\ ra_stage' = "done"
    /\ UNCHANGED <<puntos, tol_rba, ra_i, angs>>

NextAngle == AngleKeep \/ AngleDrop \/ AngleReturn

SpecAngle == InitAngle /\ [][NextAngle]_vars

(***************************************************************************)
(* cleanPoints2                                                            *)
(*                                                                         *)
(* The point layer holds one feature for each point of CandidatePoints, in *)
(* that order, with a BEACH_CODE drawn from BeachCodes; the empty layer is *)
(* an input too. Every feature has a geometry. No four of the candidate    *)
(* points lie on one circle, so the Delaunay triangulation of any subset   *)
(* is unique; four of them lie on one line. Point and node indices start   *)
(* at 0 as in the code: the point of index n is points[n + 1].             *)
(***************************************************************************)
CandidatePoints ==
    << <<0, 0>>, <<2, 1>>, <<1, 0>>, <<3, 3>>, <<2, 0>>, <<0, 2>>, <<3, 0>> >>
BeachCodes == {-1, 0, 1, 2}
tol_rba_scene == 150   \* cleanPoints2(shp_path_average, 150, 1)
level == 1

Feature(pt, code) == [geom |-> pt, BEACH_CODE |-> code]

Layers ==
    {[k \in DOMAIN CandidatePoints |-> Feature(CandidatePoints[k], code[k])] :
        code \in [DOMAIN CandidatePoints -> BeachCodes]}
    \cup {<<>>}

\* ids = list(set(ids)); ids.sort()
SortedIds(lay) == Ascending({lay[k].BEACH_CODE : k \in DOMAIN lay})

\* if ids[0] == 0: ids.remove(0)
RemoveZero(sorted_ids) ==
    IF sorted_ids[1] = 0 THEN Tail(sorted_ids) ELSE sorted_ids

\* Mutant of GroupOf: the attribute filter is not applied.
GroupOf_NoFilter(lay, id_feat) == [k \in 1..Len(lay) |-> lay[k].geom]

\* layer.SetAttributeFilter("BEACH_CODE = " + str(id_feat)): the geometries
GroupOf(lay, id_feat) ==
    LET sel == SelectSeq(lay, LAMBDA ft : ft.BEACH_CODE = id_feat)
    IN [k \in 1..Len(sel) |-> sel[k].geom]

\* for i in range(0, len(group), level): coords.append(...)
Coordinates(group) ==
    [k \in 1..((Len(group) + level - 1) \div level) |-> group[(k - 1) * level + 1]]

\* twice the signed area of the triangle a, b, cc
Orient(a, b, cc) ==
    (b[1] - a[1]) * (cc[2] - a[2]) - (b[2] - a[2]) * (cc[1] - a[1])

\* d lies strictly inside the circle through a, b and cc
InCircumcircle(a, b, cc, d) ==
    LET ax == a[1] - d[1]
        ay == a[2] - d[2]
        bx == b[1] - d[1]
        by == b[2] - d[2]
        cx == cc[1] - d[1]
        cy == cc[2] - d[2]
        det == (ax * ax + ay * ay) * (bx * cy - by * cx)
               - (bx * bx + by * by) * (ax * cy - ay * cx)
               + (cx * cx + cy * cy) * (ax * by - ay * bx)
    IN Orient(a, b, cc) * det > 0

\* Delaunay(points) raises QhullError: too few points for an initial simplex,
\* or an initial simplex that is flat
DelaunayRaises(points) ==
    \/ Len(points) < 3
    \/ \A i, j, k \in 1..Len(points) : Orient(points[i], points[j], points[k]) = 0

\* tri.simplices: the triangles whose circumcircle holds no other point
Delaunay(points) ==
    LET n == Len(points)
    IN {t \in (0..(n - 1)) \X (0..(n - 1)) \X (0..(n - 1)) :
            /\ t[1] < t[2] /\ t[2] < t[3]
            /\ Orient(points[t[1] + 1], points[t[2] + 1], points[t[3] + 1]) # 0
            /\ \A m \in (0..(n - 1)) \ {t[1], t[2], t[3]} :
                  ~InCircumcircle(points[t[1] + 1], points[t[2] + 1],
                                  points[t[3] + 1], points[m + 1])}

\* dist(p1, p2), squared: weights are only ever compared with each other
dist2(p1, p2) ==
    (p2[1] - p1[1]) * (p2[1] - p1[1]) + (p2[2] - p1[2]) * (p2[2] - p1[2])

\* the nodes and edges G gets from the triangles; an edge is <<u, v>>, u < v
GraphNodes(lista_tri) == UNION {{t[1], t[2], t[3]} : t \in lista_tri}
GraphEdges(lista_tri) ==
    {e \in GraphNodes(lista_tri) \X GraphNodes(lista_tri) :
        /\ e[1] < e[2]
        /\ \E t \in lista_tri : {e[1], e[2]} \subseteq {t[1], t[2], t[3]}}

\* nx.minimum_spanning_tree(G), Kruskal: the lightest edge joining two
\* components is added until none is left. Among edges of equal weight the
\* library takes them in the order the triangles listed them, which qhull
\* decides; every order is allowed here, so the result is a set of trees.
RECURSIVE Kruskal(_, _, _, _)
Kruskal(edges, pts, comp, tree) ==
    LET live == {e \in edges : comp[e[1]] # comp[e[2]]}
    IN IF live = {} THEN {tree}
       ELSE LET lightest ==
                    {e \in live : \A o \in live :
                        dist2(pts[e[1] + 1], pts[e[2] + 1])
                            <= dist2(pts[o[1] + 1], pts[o[2] + 1])}
            IN UNION {Kruskal(live \ {e}, pts,
                              [n \in DOMAIN comp |->
                                  IF comp[n] = comp[e[2]] THEN comp[e[1]] ELSE comp[n]],
                              tree \cup {e}) : e \in lightest}

minimum_spanning_tree(lista_tri, pts) ==
    Kruskal(GraphEdges(lista_tri), pts, [n \in GraphNodes(lista_tri) |-> n], {})

Neighbours(tree, n) ==
    {e[2] : e \in {o \in tree : o[1] = n}} \cup {e[1] : e \in {o \in tree : o[2] = n}}

\* single_source_bellman_ford_path_length on the tree discovers the nodes
\* level by level; list(keys())[-1] is the node discovered last, a node of
\* the last level. Which one depends on the adjacency order, that is on the
\* order of the triangles: every node of the last level is allowed.
RECURSIVE LastLevel(_, _, _)
LastLevel(tree, frontier, seen) ==
    LET nxt == UNION {Neighbours(tree, n) : n \in frontier} \ seen
    IN IF nxt = {} THEN frontier ELSE LastLevel(tree, nxt, seen \cup nxt)

LastKeys(tree, source) == LastLevel(tree, {source}, {source})

\* nx.dijkstra_path on the tree: the one path from a to b
RECURSIVE PathsFrom(_, _, _, _)
PathsFrom(tree, a, b, seen) ==
    IF a = b THEN {<<a>>}
    ELSE UNION {{<<a>> \o p : p \in PathsFrom(tree, n, b, seen \cup {n})} :
                    n \in Neighbours(tree, a) \ seen}

\* Mutant of dijkstra_path: the two end nodes alone.
dijkstra_path_EndsOnly(tree, a, b) == <<a, b>>

dijkstra_path(tree, a, b) == CHOOSE p \in PathsFrom(tree, a, b, {a}) : TRUE

\* computeLST raises NodeNotFound when node 1 is not in the graph
computeLSTRaises(lista_tri) == 1 \notin GraphNodes(lista_tri)

\* computeLST: the values `final` can take
computeLST(lista_tri, pts) ==
    UNION {UNION {{dijkstra_path(MST, indice1, indice2) :
                        indice2 \in LastKeys(MST, indice1)} :
                    indice1 \in LastKeys(MST, 1)} :
            MST \in minimum_spanning_tree(lista_tri, pts)}

\* removeByAngle as a function of its arguments
removeByAngle(path, t) ==
    LET inner == SelectSeq([k \in 1..(Len(path) - 2) |-> k],
                           LAMBDA k : KeepsPoint(TurnAngle(path[k], path[k + 1],
                                                           path[k + 2]), t))
    IN Endpoints([j \in 1..Len(inner) |-> path[inner[j] + 1]], path)

\* cleanPointsByAngle: tol_rba is never None here
cleanPointsByAngle(lst, pts, t) ==
    removeByAngle([k \in 1..Len(lst) |-> pts[lst[k] + 1]], t)

\* the body of try: raises
TryRaises(points) ==
    DelaunayRaises(points) \/ computeLSTRaises(Delaunay(points))

\* the body of try: the values clean_points can take
TryCleanPoints(points, t) ==
    {cleanPointsByAngle(lst, points, t) : lst \in computeLST(Delaunay(points), points)}

\* Mutant of ExceptPass: the group's raw points are kept when it raised.
ExceptPass_KeepsRaw(cg, points, identifier) == Append(cg, <<points, identifier>>)

\* except: pass
ExceptPass(cg, points, identifier) == cg

RECURSIVE Flatten(_)
Flatten(ss) == IF ss = <<>> THEN <<>> ELSE Head(ss) \o Flatten(Tail(ss))

\* Mutant of makePointShp: every point gets the first group's identifier.
makePointShp_FirstIdentifier(source_list) ==
    Flatten([i \in 1..Len(source_list) |->
                [k \in 1..Len(source_list[i][1]) |->
                    Feature(source_list[i][1][k], source_list[1][2])]])

\* makePointShp: one feature per point, with the identifier of its entry
makePointShp(source_list) ==
    Flatten([i \in 1..Len(source_list) |->
                [k \in 1..Len(source_list[i][1]) |->
                    Feature(source_list[i][1][k], source_list[i][2])]])

\* makeLineShp: one line per entry, its vertices the points of the entry
makeLineShp(source_list) ==
    [i \in 1..Len(source_list) |-> Feature(source_list[i][1], source_list[i][2])]

InitClean ==
    /\ layer \in Layers
    /\ ids = <<>> /\ groups = <<>> /\ identifiers = <<>>
    /\ grp_i = 0 /\ clean_geometries = <<>> /\ caught = {}
    /\ cp_shp = <<>> /\ cl_shp = <<>> /\ cp_stage = "open"
    /\ SceneIdle
    /\ ClusterIdle
    /\ WeightsIdle
    /\ AngleIdle
    /\ LstIdle
    /\ BranchIdle
    /\ DerivaIdle
    /\ CoordsIdle

\* lines 5364-5389: ids, then groups and identifiers
CleanGroups ==
    /\ CleanOnly
    /\ cp_stage = "open"
    /\ layer # <<>>
    /\ ids' = RemoveZero(SortedIds(layer))
    /\ groups' = [k \in 1..Len(ids') |-> GroupOf(layer, ids'[k])]
    /\ identifiers' = ids'
    /\ cp_stage' = "loop"
    /\ UNCHANGED <<layer, grp_i, clean_geometries, caught, cp_shp, cl_shp>>

\* line 5375 on a layer without features: ids[0] raises IndexError
CleanIndexError ==
    /\ CleanOnly
    /\ cp_stage = "open"
    /\ layer = <<>>
    /\ cp_stage' = "crashed"
    /\ UNCHANGED <<layer, ids, groups, identifiers, grp_i, clean_geometries, caught,
                   cp_shp, cl_shp>>

\* one iteration of the group loop whose try body completes. len(points >= 4)
\* is the number of points, nonzero for every group.
GroupCleaned ==
    /\ CleanOnly
    /\ cp_stage = "loop"
    /\ grp_i < Len(groups)
    /\ LET points == Coordinates(groups[grp_i + 1])
           identifier == identifiers[grp_i + 1]
       IN /\ Len(points) # 0
          /\ ~TryRaises(points)
          /\ \E clean_points \in TryCleanPoints(points, tol_rba_scene) :
                clean_geometries' = Append(clean_geometries, <<clean_points, identifier>>)
    /\ grp_i' = grp_i + 1
    /\ UNCHANGED <<layer, ids, groups, identifiers, caught, cp_shp, cl_shp, cp_stage>>

\* one iteration of the group loop whose try body raises
GroupRaises ==
    /\ CleanOnly
    /\ cp_stage = "loop"
    /\ grp_i < Len(groups)
    /\ LET points == Coordinates(groups[grp_i + 1])
           identifier == identifiers[grp_i + 1]
       IN /\ Len(points) # 0
          /\ TryRaises(points)
          /\ clean_geometries' = ExceptPass(clean_geometries, points, identifier)
    /\ caught' = caught \cup {grp_i}
    /\ grp_i' = grp_i + 1
    /\ UNCHANGED <<layer, ids, groups, identifiers, cp_shp, cl_shp, cp_stage>>

\* lines 5420-5421
MakePointShp ==
    /\ CleanOnly
    /\ cp_stage = "loop"
    /\ grp_i >= Len(groups)
    /\ cp_shp' = makePointShp(clean_geometries)
    /\ cp_stage' = "points"
    /\ UNCHANGED <<layer, ids, groups, identifiers, grp_i, clean_geometries, caught,
                   cl_shp>>

\* lines 5422-5423
MakeLineShp ==
    /\ CleanOnly
    /\ cp_stage = "points"
    /\ cl_shp' = makeLineShp(clean_geometries)
    /\ cp_stage' = "done"
    /\ UNCHANGED <<layer, ids, groups, identifiers, grp_i, clean_geometries, caught,
                   cp_shp>>

NextClean ==
    \/ CleanGroups
    \/ CleanIndexError
    \/ GroupCleaned
    \/ GroupRaises
    \/ MakePointShp
    \/ MakeLineShp

SpecClean == InitClean /\ [][NextClean]_vars

(***************************************************************************)
(* computeLST, statement by statement                                      *)
(*                                                                         *)
(* The arguments are the points of a group and their triangles as          *)
(* cleanPoints2 passes them: every arrangement of 3 to MaxNodes distinct   *)
(* candidate points that are not all on one line, with its Delaunay        *)
(* triangles. Edge weights are dist(p1, p2) in millionths, rounded:        *)
(* SqrtMicro[n] is sqrt(n) * 10^6 for every squared distance n between two *)
(* candidate points.                                                       *)
(***************************************************************************)
SqrtMicro ==
    (1 :> 1000000) @@ (2 :> 1414214) @@ (4 :> 2000000) @@ (5 :> 2236068) @@
    (8 :> 2828427) @@ (9 :> 3000000) @@ (10 :> 3162278) @@ (13 :> 3605551) @@
    (18 :> 4242641)

\* dist(p1, p2), millionths
dist(p1, p2) == SqrtMicro[dist2(p1, p2)]

\* the sequences of n distinct candidate points
Arrangements(n) ==
    {[k \in 1..n |-> CandidatePoints[s[k]]] :
        s \in {q \in [1..n -> DOMAIN CandidatePoints] :
                  \A a, b \in 1..n : a # b => q[a] # q[b]}}

InitLST ==
    /\ \E n \in 3..MaxNodes : lst_points \in Arrangements(n)
    /\ ~DelaunayRaises(lst_points)
    /\ lst_tri = Delaunay(lst_points)
    /\ lst_mst = {} /\ lst_indice1 = -1 /\ lst_indice2 = -1 /\ lst_final = <<>>
    /\ lst_stage = "graph"
    /\ SceneIdle
    /\ ClusterIdle
    /\ WeightsIdle
    /\ AngleIdle
    /\ CleanIdle
    /\ BranchIdle
    /\ DerivaIdle
    /\ CoordsIdle

\* lines 5445-5452: G from the triangles, then MST
LstSpanningTree ==
    /\ LstOnly
    /\ lst_stage = "graph"
    /\ lst_mst' \in minimum_spanning_tree(lst_tri, lst_points)
    /\ lst_stage' = "mst"
    /\ UNCHANGED <<lst_points, lst_tri, lst_indice1, lst_indice2, lst_final>>

\* lines 5454-5455: indice1 = list(lpath1.keys())[-1], searching from node 1
LstFirstEndpoint ==
    /\ LstOnly
    /\ lst_stage = "mst"
    /\ lst_indice1' \in LastKeys(lst_mst, 1)
    /\ lst_stage' = "first"
    /\ UNCHANGED <<lst_points, lst_tri, lst_mst, lst_indice2, lst_final>>

\* lines 5457-5459: indice2 = list(lpath2.keys())[-1], searching from indice1
LstSecondEndpoint ==
    /\ LstOnly
    /\ lst_stage = "first"
    /\ lst_indice2' \in LastKeys(lst_mst, lst_indice1)
    /\ lst_stage' = "second"
    /\ UNCHANGED <<lst_points, lst_tri, lst_mst, lst_indice1, lst_final>>

\* lines 5461-5462: final = nx.dijkstra_path(...); return final
LstPath ==
    /\ LstOnly
    /\ lst_stage = "second"
    /\ lst_final' = dijkstra_path(lst_mst, lst_indice1, lst_indice2)
    /\ lst_stage' = "done"
    /\ UNCHANGED <<lst_points, lst_tri, lst_mst, lst_indice1, lst_indice2>>

NextLST == LstSpanningTree \/ LstFirstEndpoint \/ LstSecondEndpoint \/ LstPath

SpecLST == InitLST /\ [][NextLST]_vars

(***************************************************************************)
(* mejor_curva_pendiente3                                                  *)
(*                                                                         *)
(* A branch is given by the scores p*peso of its vertices: the gradient    *)
(* magnitude sqrt(px^2 + py^2) times the weight mp[...], a number >= 0,    *)
(* here a whole number of Scores. v holds at least one branch (the caller  *)
(* tests len(v) != 0) and every branch at least one vertex. p_med and      *)
(* p_max are kept as <<sum, count>>.                                       *)
(***************************************************************************)
Scores == {0, 1, 2}
BranchLengths == {1, 2}
BranchesOfV == UNION {[1..m -> Scores] : m \in BranchLengths}

\* np.average(pendientes)
Mean(pendientes) == <<SumSeq(pendientes), Len(pendientes)>>

\* Mutant of AtLeast: a later branch must be strictly better.
AtLeast_Strict(a, b) == a[1] * b[2] > b[1] * a[2]

\* p_med >= p_max
AtLeast(a, b) == a[1] * b[2] >= b[1] * a[2]

InitBranch ==
    /\ \E n \in 1..MaxBranches : contours \in [1..n -> BranchesOfV]
    /\ mc_i = 0
    /\ p_max = <<0, 1>>
    /\ candidate = -1
    /\ mc_stage = "loop"
    /\ SceneIdle
    /\ ClusterIdle
    /\ WeightsIdle
    /\ AngleIdle
    /\ CleanIdle
    /\ LstIdle
    /\ DerivaIdle
    /\ CoordsIdle

\* loop body, p_med >= p_max
BranchTaken ==
    /\ BranchOnly
    /\ mc_stage = "loop"
    /\ mc_i < Len(contours)
    /\ AtLeast(Mean(contours[mc_i + 1]), p_max)
    /\ p_max' = Mean(contours[mc_i + 1])
    /\ candidate' = mc_i
    /\ mc_i' = mc_i + 1
    /\ UNCHANGED <<contours, mc_stage>>

\* loop body, p_med < p_max
BranchPassed ==
    /\ BranchOnly
    /\ mc_stage = "loop"
    /\ mc_i < Len(contours)
    /\ ~AtLeast(Mean(contours[mc_i + 1]), p_max)
    /\ mc_i' = mc_i + 1
    /\ UNCHANGED <<contours, p_max, candidate, mc_stage>>

\* return candidate
BranchReturn ==
    /\ BranchOnly
    /\ mc_stage = "loop"
    /\ mc_i >= Len(contours)
    /\ mc_stage' = "done"
    /\ UNCHANGED <<contours, mc_i, p_max, candidate>>

NextBranch == BranchTaken \/ BranchPassed \/ BranchReturn

SpecBranch == InitBranch /\ [][NextBranch]_vars

(***************************************************************************)
(* deriva and the Laplacian of extractPoints (lines 4693-4698)             *)
(*                                                                         *)
(* A matrix is a sequence of rows; row i and column j of the code are row  *)
(* i + 1 and column j + 1 here. m is what polyfit2d returns: (degree + 1)  *)
(* squared coefficients for the degree 3 of the callers, and deriva takes  *)
(* any shape. The matrices drawn have up to MaxTerms non-zero entries.     *)
(***************************************************************************)
MaxTerms == 2
Coefs == {-1, 1, 2}
Shapes == {<<4, 4>>, <<2, 3>>, <<1, 2>>}

\* np.zeros((n,))
Zeros(n) == [k \in 1..n |-> 0]

\* .T of a matrix of nr rows and nc columns
Transposed(mat, nr, nc) == [j \in 1..nc |-> [i \in 1..nr |-> mat[i][j]]]

\* Mutant of deriva: the slice is taken but not multiplied by factores.
deriva_NoFactores(mm, axis) ==
    LET nf == Len(mm)
        nc == Len(mm[1])
    IN IF axis = "x"
       THEN LET nm == [i \in 1..nf |-> [j \in 1..(nc - 1) |-> mm[i][j + 1]]]
            IN Transposed(Append(Transposed(nm, nf, nc - 1), Zeros(nf)), nc, nf)
       ELSE LET nm == [i \in 1..(nf - 1) |-> mm[i + 1]]
            IN Append(nm, Zeros(nc))

deriva(mm, axis) ==
    LET nf == Len(mm)
        nc == Len(mm[1])
    IN IF axis = "x"
       THEN LET factores == [j \in 1..(nc - 1) |-> j]
                \* m[:, range(1, c)]
                nm == [i \in 1..nf |-> [j \in 1..(nc - 1) |-> mm[i][j + 1]]]
                \* nm*factores: factores runs along the columns
                scaled == [i \in 1..nf |->
                              [j \in 1..(nc - 1) |-> nm[i][j] * factores[j]]]
            IN \* np.vstack((nm.T, ceros.T)).T
               Transposed(Append(Transposed(scaled, nf, nc - 1), Zeros(nf)), nc, nf)
       ELSE LET factores == [i \in 1..(nf - 1) |-> i]
                \* m[range(1, f), :]
                nm == [i \in 1..(nf - 1) |-> mm[i + 1]]
                nmT == Transposed(nm, nf - 1, nc)
                \* (nm.T*factores).T: factores runs along the rows
                scaledT == [j \in 1..nc |->
                               [i \in 1..(nf - 1) |-> nmT[j][i] * factores[i]]]
            IN \* np.vstack((nm, ceros))
               Append(Transposed(scaledT, nc, nf - 1), Zeros(nc))

\* d2x+d2y
MatrixSum(a, b) == [i \in 1..Len(a) |-> [j \in 1..Len(a[i]) |-> a[i][j] + b[i][j]]]

\* the matrices of a shape with the non-zero entries at the cells of `cells`
SparseMatrices(shape, cells) ==
    {[i \in 1..shape[1] |->
         [j \in 1..shape[2] |-> IF <<i, j>> \in cells THEN val[<<i, j>>] ELSE 0]] :
       val \in [cells -> Coefs]}
Matrices(shape) ==
    UNION {SparseMatrices(shape, cells) :
             cells \in {cs \in SUBSET ((1..shape[1]) \X (1..shape[2])) :
                           Cardinality(cs) <= MaxTerms}}

\* m = polyfit2d(cx, cy, cz, deg=degree)
InitDeriva ==
    /\ \E shape \in Shapes : dv_m \in Matrices(shape)
    /\ dv_dx = <<>> /\ dv_d2x = <<>> /\ dv_dy = <<>> /\ dv_d2y = <<>>
    /\ laplaciano = <<>>
    /\ dv_stage = "fitted"
    /\ SceneIdle
    /\ ClusterIdle
    /\ WeightsIdle
    /\ AngleIdle
    /\ CleanIdle
    /\ LstIdle
    /\ BranchIdle
    /\ CoordsIdle

\* dx = deriva(m, 'x')
DerivaDx ==
    /\ DerivaOnly
    /\ dv_stage = "fitted"
    /\ dv_dx' = deriva(dv_m, "x")
    /\ dv_stage' = "dx"
    /\ UNCHANGED <<dv_m, dv_d2x, dv_dy, dv_d2y, laplaciano>>

\* d2x = deriva(dx, 'x')
DerivaD2x ==
    /\ DerivaOnly
    /\ dv_stage = "dx"
    /\ dv_d2x' = deriva(dv_dx, "x")
    /\ dv_stage' = "d2x"
    /\ UNCHANGED <<dv_m, dv_dx, dv_dy, dv_d2y, laplaciano>>

\* dy = deriva(m, 'y')
DerivaDy ==
    /\ DerivaOnly
    /\ dv_stage = "d2x"
    /\ dv_dy' = deriva(dv_m, "y")
    /\ dv_stage' = "dy"
    /\ UNCHANGED <<dv_m, dv_dx, dv_d2x, dv_d2y, laplaciano>>

\* d2y = deriva(dy, 'y')
DerivaD2y ==
    /\ DerivaOnly
    /\ dv_stage = "dy"
    /\ dv_d2y' = deriva(dv_dy, "y")
    /\ dv_stage' = "d2y"
    /\ UNCHANGED <<dv_m, dv_dx, dv_d2x, dv_dy, laplaciano>>

\* laplaciano = d2x+d2y
DerivaLaplaciano ==
    /\ DerivaOnly
    /\ dv_stage = "d2y"
    /\ laplaciano' = MatrixSum(dv_d2x, dv_d2y)
    /\ dv_stage' = "done"
    /\ UNCHANGED <<dv_m, dv_dx, dv_d2x, dv_dy, dv_d2y>>

NextDeriva == DerivaDx \/ DerivaD2x \/ DerivaDy \/ DerivaD2y \/ DerivaLaplaciano

SpecDeriva == InitDeriva /\ [][NextDeriva]_vars

(***************************************************************************)
(* escribeCoords (lines 5006-5011), with the weight lookup it shares with  *)
(* mejor_curva_pendiente3 (line 4968)                                      *)
(*                                                                         *)
(* Lengths are whole numbers of half the point distance: resol is 2 units  *)
(* and the pixel size resol_orig = ppp*resol is 2*ppp units. createData    *)
(* puts the N = kernel*ppp samples of a window at resol/2, 3*resol/2, ..., *)
(* (N - 1/2)*resol, that is at 1, 3, ..., 2*N - 1; the vertices of a       *)
(* contour lie between the first and the last sample.                      *)
(***************************************************************************)
resol == 2
resol_orig(p) == p * resol

\* the weight matrix computeWeights(kernel, ppp) returns, cells from 0
computeWeights(k, p) ==
    [cell \in (0..(k * p - 1)) \X (0..(k * p - 1)) |->
        CellValue(cell[1] + 1, cell[2] + 1, k * p, k * p)]

\* Mutant of IndexOf: the cells counted from 1.
IndexOf_FromOne(coord) == coord \div resol + 1

\* int(x[i]/resol) for x[i] >= 0
IndexOf(coord) == coord \div resol

\* Mutant of int_half: kernel/2.0 rounded up.
int_half_Up(k) == (k + 1) \div 2

\* int(kernel/2.0)
int_half(k) == k \div 2

\* wm[int(x[i]/resol), int(y[i]/resol)]; an index past the matrix raises
\* IndexError
InMatrix(w, lx, ly) == <<IndexOf(lx), IndexOf(ly)>> \in DOMAIN w
Peso(w, lx, ly) == w[<<IndexOf(lx), IndexOf(ly)>>]

\* vertex coordinates drawn for a grid of n samples: the first sample, the
\* border between two cells in the middle, the last sample
LocalCoords(n) == {1, 2 * (n \div 2), 2 * n - 1}

Origins == {<<0, 1000>>, <<500, 2000>>}
CentrePixels == {<<offset, offset>>, <<offset + 1, offset + 3>>}

InitCoords ==
    /\ ec_kernel \in KernelSizes
    /\ ec_ppp \in 1..MaxPpp
    /\ \E n \in 1..MaxVerts :
          /\ ec_x \in [1..n -> LocalCoords(ec_kernel * ec_ppp)]
          /\ ec_y \in [1..n -> LocalCoords(ec_kernel * ec_ppp)]
    /\ \E o \in Origins : ec_xmin = o[1] /\ ec_ymax = o[2]
    /\ \E px \in CentrePixels : ec_fil = px[1] /\ ec_col = px[2]
    /\ ec_i = 0
    /\ output_file = <<>>
    /\ ec_stage = "loop"
    /\ SceneIdle
    /\ ClusterIdle
    /\ WeightsIdle
    /\ AngleIdle
    /\ CleanIdle
    /\ LstIdle
    /\ BranchIdle
    /\ DerivaIdle

\* the body of `for i in range(0, len(x))`
CoordsWrite ==
    /\ CoordsOnly
    /\ ec_stage = "loop"
    /\ ec_i < Len(ec_x)
    /\ LET rx == ec_xmin + (ec_col - int_half(ec_kernel)) * resol_orig(ec_ppp)
                     + ec_x[ec_i + 1]
           ry == ec_ymax - (ec_fil - int_half(ec_kernel)) * resol_orig(ec_ppp)
                     - ec_y[ec_i + 1]
           w == computeWeights(ec_kernel, ec_ppp)
           peso == Peso(w, ec_x[ec_i + 1], ec_y[ec_i + 1])
       IN IF ~InMatrix(w, ec_x[ec_i + 1], ec_y[ec_i + 1])
          THEN /\ ec_stage' = "raised"
               /\ UNCHANGED <<output_file, ec_i>>
          ELSE /\ output_file' = Append(output_file, <<rx, ry, peso>>)
               /\ ec_i' = ec_i + 1
               /\ UNCHANGED ec_stage
    /\ UNCHANGED <<ec_kernel, ec_ppp, ec_x, ec_y, ec_xmin, ec_ymax, ec_fil, ec_col>>

\* the loop is over
CoordsReturn ==
    /\ CoordsOnly
    /\ ec_stage = "loop"
    /\ ec_i >= Len(ec_x)
    /\ ec_stage' = "done"
    /\ UNCHANGED <<ec_kernel, ec_ppp, ec_x, ec_y, ec_xmin, ec_ymax, ec_fil, ec_col,
                   ec_i, output_file>>

NextCoords == CoordsWrite \/ CoordsReturn

SpecCoords == InitCoords /\ [][NextCoords]_vars

(***************************************************************************)
(* The scene-processing functions: for each scene of the batch, download,  *)
(* build the mask, then extractPoints and, if it returned True, the later  *)
(* stages; otherwise a warning and sys.exit(1).                            *)
(***************************************************************************)
InitScene ==
    /\ scene = 0 /\ stage = "download" /\ executed = <<>> /\ exported = {}
    /\ exit_status = -1 /\ medias = "unset"
    /\ rows = 0 /\ columns = 0 /\ pl_data = {} /\ f = 0 /\ c = 0
    /\ white_pixel = FALSE /\ file_coord = <<>> /\ processed = <<>>
    /\ res = "unset"
    /\ kernel_size \in KernelSizes
    /\ removed = FALSE /\ sub = <<{}, {}>> /\ points_xy = <<>>
    /\ ClusterIdle
    /\ WeightsIdle
    /\ AngleIdle
    /\ CleanIdle
    /\ LstIdle
    /\ BranchIdle
    /\ DerivaIdle
    /\ CoordsIdle

\* for l8_scene in l8_scenes: downloadLandsat8_2 ... maskPixelLine. The raster,
\* the mask and a raw point file left by an earlier run are inputs.
Download ==
    /\ SceneOnly
    /\ stage = "download"
    /\ scene < NumScenes
    /\ scene' = scene + 1
    /\ \E nr \in (2 * offset)..MaxRows, nc \in (2 * offset)..MaxColumns :
          /\ rows' = nr
          /\ columns' = nc
          /\ pl_data' \in SUBSET MaskCandidates(nr, nc)
    /\ file_coord' \in {<<>>, <<StaleRecord>>}
    /\ stage' = "extract"
    /\ executed' = <<>>
    /\ medias' = "unset"
    /\ f' = 0 /\ c' = 0 /\ white_pixel' = FALSE /\ res' = "unset"
    /\ processed' = <<>>
    /\ removed' = FALSE /\ sub' = <<{}, {}>> /\ points_xy' = <<>>
    /\ UNCHANGED <<exported, exit_status, kernel_size>>

\* extractPoints up to the scan: the existing .d file is removed, the file is
\* opened, the loop variables are set
ExtractOpen ==
    /\ SceneOnly
    /\ stage = "extract"
    /\ executed' = Append(executed, "extractPoints")
    /\ removed' = (file_coord # <<>>)
    /\ file_coord' = RemoveExisting(file_coord)
    /\ points_xy' = <<>>
    /\ white_pixel' = FALSE
    /\ f' = f1 /\ c' = c1
    /\ processed' = <<>>
    /\ stage' = "scan"
    /\ UNCHANGED <<scene, exported, exit_status, medias, rows, columns, pl_data, res,
                   kernel_size, sub>>

ScanActive == stage = "scan" /\ ~ScanEmpty /\ f < f2

\* if valor == 255 is false: nothing happens for the pixel
ScanSkip ==
    /\ SceneOnly
    /\ ScanActive
    /\ <<f, c>> \notin pl_data
    /\ f' = NextPixel(f, c)[1] /\ c' = NextPixel(f, c)[2]
    /\ UNCHANGED <<sceneVars, rows, columns, pl_data, white_pixel, file_coord,
                   processed, res, kernel_size, removed, sub, points_xy>>

\* valor == 255 and the pixel yields no record: v is None, v is empty or
\* indice == -1
ScanPixelNoPoint ==
    /\ SceneOnly
    /\ ScanActive
    /\ <<f, c>> \in pl_data
    /\ white_pixel' = TRUE
    /\ sub' = Window(f, c, kernel_size)
    /\ \E o \in PixelOutcomes : processed' = Append(processed, <<f, c, o>>)
    /\ f' = NextPixel(f, c)[1] /\ c' = NextPixel(f, c)[2]
    /\ UNCHANGED <<sceneVars, rows, columns, pl_data, file_coord, res, kernel_size,
                   removed, points_xy>>

\* valor == 255 and polyval2d raises for the pixel: nothing in extractPoints
\* or its callers catches it, the process ends with a traceback
ScanPixelRaises ==
    /\ SceneOnly
    /\ ScanActive
    /\ <<f, c>> \in pl_data
    /\ white_pixel' = TRUE
    /\ sub' = Window(f, c, kernel_size)
    /\ processed' = Append(processed, <<f, c, "EvalRaises">>)
    /\ stage' = "raised"
    /\ exit_status' = 1
    /\ UNCHANGED <<scene, executed, exported, medias, rows, columns, pl_data, f, c,
                   file_coord, res, kernel_size, removed, points_xy>>

\* valor == 255 and the winning branch has n vertices: they are appended to
\* the buffers, escribeCoords writes the buffers to the file, the buffers are
\* emptied
ScanPixelPoints ==
    /\ SceneOnly
    /\ ScanActive
    /\ <<f, c>> \in pl_data
    /\ white_pixel' = TRUE
    /\ sub' = Window(f, c, kernel_size)
    /\ \E n \in 1..MaxVerts :
          /\ file_coord' = file_coord \o escribeCoords(points_xy \o Linea(f, c, n), f, c)
          /\ processed' = Append(processed, <<f, c, "Points">>)
    /\ points_xy' = <<>>
    /\ f' = NextPixel(f, c)[1] /\ c' = NextPixel(f, c)[2]
    /\ UNCHANGED <<sceneVars, rows, columns, pl_data, res, kernel_size, removed>>

\* the value extractPoints returns
extractPointsResult(wp) == IF wp THEN "True" ELSE "False"

\* file_coord.close() and the return
ExtractReturn ==
    /\ SceneOnly
    /\ stage = "scan"
    /\ ScanEmpty \/ f >= f2
    /\ res' = extractPointsResult(white_pixel)
    /\ stage' = "extracted"
    /\ UNCHANGED <<scene, executed, exported, exit_status, medias,
                   rows, columns, pl_data, f, c, white_pixel, file_coord, processed,
                   kernel_size, removed, sub, points_xy>>

\* Mutant of NoResults: the loop goes on with the next scene of the list.
NoResults_NextScene ==
    /\ SceneOnly
    /\ stage = "extracted"
    /\ res = "False"
    /\ stage' = "download"
    /\ UNCHANGED <<scene, executed, exported, exit_status, medias, extractVars>>

\* else: logging.warning('No results in extraction points process.'); sys.exit(1)
NoResults ==
    /\ SceneOnly
    /\ stage = "extracted"
    /\ res = "False"
    /\ stage' = "exit"
    /\ exit_status' = 1
    /\ UNCHANGED <<scene, executed, exported, medias, extractVars>>

\* averagePoints on a file without records: datos has shape (0,), datos[:, 0]
\* raises IndexError, which nothing catches
AveragePointsRaises ==
    /\ SceneOnly
    /\ stage = "extracted"
    /\ res = "True"
    /\ file_coord = <<>>
    /\ executed' = Append(executed, "averagePoints")
    /\ stage' = "crashed"
    /\ exit_status' = 1
    /\ UNCHANGED <<scene, exported, medias, extractVars>>

\* averagePoints(..., 50, 3): a cluster needs min_cluster_size records
AveragePoints ==
    /\ SceneOnly
    /\ stage = "extracted"
    /\ res = "True"
    /\ file_coord # <<>>
    /\ executed' = Append(executed, "averagePoints")
    /\ medias' \in IF Len(file_coord) >= min_cluster_size_default
                    THEN {"empty", "some"} ELSE {"empty"}
    /\ stage' = "averaged"
    /\ UNCHANGED <<scene, exported, exit_status, extractVars>>

CreateShp ==
    /\ SceneOnly
    /\ stage = "averaged"
    /\ executed' = Append(executed, "createShpFromAverageFile")
    /\ stage' = "shp"
    /\ UNCHANGED <<scene, exported, exit_status, medias, extractVars>>

\* Mutant of CopyIdentifiers: cleanPoints2 is called where the tagging belongs.
CopyIdentifiers_CleansFirst ==
    /\ SceneOnly
    /\ stage = "shp"
    /\ executed' = Append(executed, "cleanPoints2")
    /\ stage' = "tagged"
    /\ UNCHANGED <<scene, exported, exit_status, medias, extractVars>>

CopyIdentifiers ==
    /\ SceneOnly
    /\ stage = "shp"
    /\ executed' = Append(executed, "copyShpIdentifiers")
    /\ stage' = "tagged"
    /\ UNCHANGED <<scene, exported, exit_status, medias, extractVars>>

\* cleanPoints2 on a layer without features: ids == [], ids[0] raises
\* IndexError, which nothing catches
CleanPointsRaises ==
    /\ SceneOnly
    /\ stage = "tagged"
    /\ medias = "empty"
    /\ executed' = Append(executed, "cleanPoints2")
    /\ stage' = "crashed"
    /\ exit_status' = 1
    /\ UNCHANGED <<scene, exported, medias, extractVars>>

CleanPoints ==
    /\ SceneOnly
    /\ stage = "tagged"
    /\ medias = "some"
    /\ executed' = Append(executed, "cleanPoints2")
    /\ stage' = "cleaned"
    /\ UNCHANGED <<scene, exported, exit_status, medias, extractVars>>

\* copyShpToFolder, then the next scene of the list
Export ==
    /\ SceneOnly
    /\ stage = "cleaned"
    /\ executed' = Append(executed, "copyShpToFolder")
    /\ exported' = exported \cup {scene}
    /\ stage' = "download"
    /\ UNCHANGED <<scene, exit_status, medias, extractVars>>

NextScene ==
    \/ Download
    \/ ExtractOpen
    \/ ScanSkip
    \/ ScanPixelNoPoint
    \/ ScanPixelRaises
    \/ ScanPixelPoints
    \/ ExtractReturn
    \/ NoResults
    \/ AveragePointsRaises
    \/ AveragePoints
    \/ CreateShp
    \/ CopyIdentifiers
    \/ CleanPointsRaises
    \/ CleanPoints
    \/ Export

SpecScene == InitScene /\ [][NextScene]_vars

(***************************************************************************)
(* Claims on extractPoints and the stage chain (SpecScene)                 *)
(***************************************************************************)
ExtractionReturned == stage \notin {"download", "extract", "scan", "raised"}

\* C1: extractPoints returns true if and only if at least one boundary pixel
\* (mask 255 inside the margin) was processed and produced at least one output
\* point, whatever the per-pixel contour outcomes were.
C1_ReturnIffOutput ==
    ExtractionReturned =>
        (res = "True" <=> (processed # <<>> /\ file_coord # <<>>))

\* C2: a scene in which zero raw points were extracted ends in the explicit
\* failure signal (sys.exit(1) of the caller) and none of the later stages is
\* called for it.
C2_EmptySceneFailsExplicitly ==
    (ExtractionReturned /\ file_coord = <<>>) =>
        /\ executed = <<"extractPoints">>
        /\ stage \in {"extracted", "exit"}

\* the pixel lies at least `offset` pixels from every edge of the raster
OutsideMargin(px) ==
    /\ px[1] >= offset /\ px[1] <= rows - offset - 1
    /\ px[2] >= offset /\ px[2] <= columns - offset - 1
ScanStarted == stage \notin {"idle", "download", "extract"}

\* C18: extractPoints handles a pixel only if its mask value is 255 and it
\* lies at least 10 pixels from every edge; every record of the raw point
\* file comes from such a pixel; no pixel is handled twice; and when the scan
\* is over every 255 pixel outside the margin has been handled.
C18_ScanStaysOutsideMargin ==
    ScanStarted =>
        /\ \A k \in 1..Len(processed) :
              /\ <<processed[k][1], processed[k][2]>> \in pl_data
              /\ OutsideMargin(processed[k])
        /\ \A j, k \in 1..Len(processed) :
              j # k => <<processed[j][1], processed[j][2]>>
                          # <<processed[k][1], processed[k][2]>>
        /\ \A k \in 1..Len(file_coord) :
              /\ OutsideMargin(file_coord[k])
              /\ \E j \in 1..Len(processed) :
                    processed[j] = <<file_coord[k][1], file_coord[k][2], "Points">>
        /\ ExtractionReturned =>
              \A px \in pl_data :
                  OutsideMargin(px) => \E k \in 1..Len(processed) :
                      <<processed[k][1], processed[k][2]>> = px

\* the scan is over; the mask had 255 pixels inside the margin, which were
\* left alone, and two outside it, which were handled and gave records
C18_Witness ==
    /\ ExtractionReturned
    /\ Len(processed) = 2
    /\ file_coord # <<>>
    /\ \E px \in pl_data : px[1] < offset
    /\ \E px \in pl_data : px[1] > rows - offset - 1
    /\ \E px \in pl_data : px[2] > columns - offset - 1

\* the calls of a scene-processing function after the mask is built
StageOrder ==
    <<"extractPoints", "averagePoints", "createShpFromAverageFile",
      "copyShpIdentifiers", "cleanPoints2", "copyShpToFolder">>

\* C21: the stages of a scene run in the order extract, average, create point
\* layer, tag, clean, export: the calls made so far are always a prefix of
\* that order, so cleanPoints2 is never called before copyShpIdentifiers has
\* returned, and a stage after extractPoints is only called when extractPoints
\* returned True.
C21_StagesInOrder ==
    /\ Len(executed) <= Len(StageOrder)
    /\ \A k \in 1..Len(executed) : executed[k] = StageOrder[k]
    /\ Len(executed) >= 2 => res = "True"
    /\ (stage = "cleaned" \/ (Len(executed) >= 5 /\ executed[5] = "cleanPoints2"))
          => (Len(executed) >= 4 /\ executed[4] = "copyShpIdentifiers")

\* a scene went through all six stages
C21_Witness ==
    /\ executed = StageOrder
    /\ scene \in exported
    /\ res = "True"

\* C29: in a batch, when extractPoints has returned False for a scene the
\* next step is sys.exit(1) at that scene; after it no scene is downloaded or
\* processed and the set of exported scenes stays as it was.
C29_FailedSceneEndsBatch ==
    [][/\ (stage = "extracted" /\ res = "False") =>
             (stage' = "exit" /\ exit_status' = 1 /\ scene' = scene
                /\ exported' = exported /\ executed' = executed)
       /\ stage = "exit" => UNCHANGED vars]_vars

\* the batch ended at its second scene: the first is exported, the third was
\* never downloaded
C29_Witness ==
    /\ stage = "exit"
    /\ exit_status = 1
    /\ exported = {1}
    /\ scene = 2
    /\ scene < NumScenes

\* the step handles a boundary pixel with outcome o
JustHandled(o) ==
    /\ Len(processed') = Len(processed) + 1
    /\ processed'[Len(processed')][3] = o

\* C23: when a boundary pixel has no zero-level contour, or contour
\* extraction or polynomial evaluation raises for it, the step writes nothing
\* to the raw point file, ends nothing, and the scan goes on with the next
\* pixel; the records of the other pixels stay as they are.
C23_NoSignalPixelSkipped ==
    [][\A o \in {"Empty", "None", "EvalRaises"} :
          JustHandled(o) =>
              /\ file_coord' = file_coord
              /\ exit_status' = exit_status
              /\ stage' = "scan"
              /\ <<f', c'>> = NextPixel(f, c)]_vars

\* C25: for kernel size 3 or 5 the window taken for a boundary pixel lies
\* inside the raster: its first row and column are >= 0, its last <= the
\* raster dimensions minus one, so it has kernel_size rows and columns and
\* the pixel at its centre.
C25_WindowInsideRaster ==
    (ScanStarted /\ processed # <<>>) =>
        LET px == processed[Len(processed)]
            half == (kernel_size - 1) \div 2
        IN /\ kernel_size \in {3, 5}
           /\ px[1] - half >= 0 /\ px[1] + half <= rows - 1
           /\ px[2] - half >= 0 /\ px[2] + half <= columns - 1
           /\ sub = <<(px[1] - half)..(px[1] + half), (px[2] - half)..(px[2] + half)>>
           /\ Cardinality(sub[1]) = kernel_size
           /\ Cardinality(sub[2]) = kernel_size

\* kernel size 5 and a pixel on the first and last row the scan visits
C25_Witness ==
    /\ stage = "scan"
    /\ kernel_size = 5
    /\ rows = 2 * offset + 1
    /\ processed # <<>>
    /\ processed[Len(processed)][1] = offset
    /\ processed[Len(processed)][1] = rows - offset - 1
    /\ sub[1] = (offset - 2)..(offset + 2)

\* C30: once extractPoints has opened the raw point file it holds no record
\* of an earlier run; every record is a vertex of the winning branch of the
\* pixel it was written for, no record is written twice, and the vertex
\* buffers are empty again before the next pixel.
C30_FileHoldsLastRunOnly ==
    ScanStarted =>
        /\ \A k \in 1..Len(file_coord) :
              /\ file_coord[k] # StaleRecord
              /\ file_coord[k][3][1] = file_coord[k][1]
              /\ file_coord[k][3][2] = file_coord[k][2]
              /\ \E j \in 1..Len(processed) :
                    processed[j] = <<file_coord[k][1], file_coord[k][2], "Points">>
        /\ \A j, k \in 1..Len(file_coord) : j # k => file_coord[j] # file_coord[k]
        /\ points_xy = <<>>

\* a run that found and removed the file of an earlier run and wrote the
\* branches of two pixels
C30_Witness ==
    /\ ExtractionReturned
    /\ removed
    /\ \E j, k \in 1..Len(processed) :
          /\ j # k
          /\ processed[j][3] = "Points"
          /\ processed[k][3] = "Points"
    /\ Len(file_coord) >= 3

(***************************************************************************)
(* Claims on creaCluster (SpecCluster)                                     *)
(*                                                                         *)
(* The runs of the claims are defined on the raw points themselves: the    *)
(* members of value v on an axis are the points whose coordinate on that   *)
(* axis is v; a run is a maximal stretch of their other coordinates, in    *)
(* ascending order, in which neighbours differ by at most the tolerance.   *)
(***************************************************************************)
Members(axis, v) == {i \in 1..Len(datos) : datos[i][axis] = v}
OtherAxis(axis) == 3 - axis
SortedOthers(axis, v) ==
    Sorted(Take(Column(datos, OtherAxis(axis)), Nonzero(Column(datos, axis), v)))

RunStarts(ys, tol) == {i \in 1..Len(ys) : i = 1 \/ ys[i] - ys[i - 1] > tol}
RunEnd(ys, tol, i) ==
    CHOOSE j \in i..Len(ys) :
        /\ \A k \in i..(j - 1) : ys[k + 1] - ys[k] <= tol
        /\ j = Len(ys) \/ ys[j + 1] - ys[j] > tol
QualifyingRuns(axis, v) ==
    LET ys == SortedOthers(axis, v)
    IN {i \in RunStarts(ys, cluster_distance) :
          RunEnd(ys, cluster_distance, i) - i + 1 >= min_cluster_size}

AxisValues(axis) == {datos[i][axis] : i \in 1..Len(datos)}

\* the sum of fn[e] over the elements e of S
RECURSIVE SumOver(_, _)
SumOver(S, fn) ==
    IF S = {} THEN 0
    ELSE LET e == CHOOSE u \in S : TRUE IN fn[e] + SumOver(S \ {e}, fn)

NumQualifying(axis) ==
    SumOver(AxisValues(axis),
            [v \in AxisValues(axis) |-> Cardinality(QualifyingRuns(axis, v))])

\* the points of the list whose coordinate on `axis` is exactly v
EmittedAt(points, axis, v) == SelectSeq(points, LAMBDA e : e[axis] = <<v, 1>>)

XPass == IF cl_stage = "xdone" THEN average_points
         ELSE SubSeq(average_points, 1, NumQualifying(1))
YPass == SubSeq(average_points, NumQualifying(1) + 1, Len(average_points))

\* C3: for each distinct X value the X pass emits exactly one averaged point
\* per maximal run of size >= min_cluster_size of the points sharing that X,
\* and none for a smaller run; symmetrically for each distinct Y value.
C3_OnePointPerRun ==
    /\ cl_stage = "xdone" =>
          \A x \in AxisValues(1) :
              Len(EmittedAt(average_points, 1, x)) = Cardinality(QualifyingRuns(1, x))
    /\ cl_stage = "done" =>
          /\ Len(average_points) = NumQualifying(1) + NumQualifying(2)
          /\ \A y \in AxisValues(2) :
                Len(EmittedAt(YPass, 2, y)) = Cardinality(QualifyingRuns(2, y))

\* The weighted mean of the members of the run of value v that starts at
\* sorted position i, each member weighted by its own weight.
RunMean(axis, v, i) ==
    LET ys == SortedOthers(axis, v)
        j == RunEnd(ys, cluster_distance, i)
        in_run == {m \in Members(axis, v) :
                     /\ datos[m][OtherAxis(axis)] >= ys[i]
                     /\ datos[m][OtherAxis(axis)] <= ys[j]}
    IN << SumOver(in_run, [m \in in_run |-> pesos[m] * datos[m][OtherAxis(axis)]]),
          SumOver(in_run, [m \in in_run |-> pesos[m]]) >>

SameMean(a, b) == a[1] * b[2] = b[1] * a[2]

\* the qualifying runs of value v, ascending
RunsInOrder(axis, v) == Ascending(QualifyingRuns(axis, v))

MeansAreWeighted(points, axis) ==
    \A v \in AxisValues(axis) :
        LET emitted == EmittedAt(points, axis, v)
            runs == RunsInOrder(axis, v)
        IN \A k \in 1..Len(emitted) :
              /\ k <= Len(runs)
              /\ SameMean(emitted[k][OtherAxis(axis)], RunMean(axis, v, runs[k]))

\* C4: every averaged point keeps the shared coordinate and its other
\* coordinate is the weighted mean of the members of its run, each member
\* weighted by its own weight, also when members have equal coordinates and
\* different weights.
C4_MeanUsesOwnWeights ==
    /\ cl_stage = "xdone" => MeansAreWeighted(average_points, 1)
    /\ cl_stage = "done" => MeansAreWeighted(YPass, 2)

\* Averaged points have rational coordinates <<numerator, denominator>>. To
\* hand them to creaCluster again they are written in units of 1/Scale, with
\* Scale the least common multiple of their denominators, and the tolerance
\* in the same units; the second result is then in units of 1/Scale too.
RECURSIVE Gcd(_, _)
Gcd(a, b) == IF b = 0 THEN a ELSE Gcd(b, a % b)
Lcm(a, b) == (a * b) \div Gcd(a, b)
RECURSIVE LcmOfDenominators(_)
LcmOfDenominators(points) ==
    IF points = <<>> THEN 1
    ELSE Lcm(Lcm(Head(points)[1][2], Head(points)[2][2]),
             LcmOfDenominators(Tail(points)))
Scale == LcmOfDenominators(average_points)
InUnits(q, scale) == q[1] * (scale \div q[2])
Rescaled(points, scale) ==
    [k \in 1..Len(points) |-> <<InUnits(points[k][1], scale), InUnits(points[k][2], scale)>>]

\* creaCluster applied to its own result, every point with weight 1
Reclustered ==
    LET dd == Rescaled(average_points, Scale)
    IN creaCluster(dd, [k \in 1..Len(dd) |-> 1],
                   Unique(Column(dd, 1)), Unique(Column(dd, 2)),
                   cluster_distance * Scale, min_cluster_size)

\* a point of the first result and a point of the second are the same point
SameAfterRescale(first, second) ==
    /\ second[1][1] * first[1][2] = first[1][1] * second[1][2] * Scale
    /\ second[2][1] * first[2][2] = first[2][1] * second[2][2] * Scale

\* C13: creaCluster applied to its own result with the same cluster_distance
\* and min_cluster_size returns the same set of points.
C13_ReclusterSameSet ==
    (cl_stage = "done" /\ average_points # <<>>) =>
        /\ \A i \in 1..Len(average_points) : \E j \in 1..Len(Reclustered) :
              SameAfterRescale(average_points[i], Reclustered[j])
        /\ \A j \in 1..Len(Reclustered) : \E i \in 1..Len(average_points) :
              SameAfterRescale(average_points[i], Reclustered[j])

\* the orders in which n records can be read
ReadOrders(n) ==
    {q \in [1..n -> 1..n] : \A a, b \in 1..n : a # b => q[a] # q[b]}

\* the result of creaCluster when the records are read in the order q
ClusteredInOrder(q) ==
    LET dd == [k \in 1..Len(datos) |-> datos[q[k]]]
        pw == [k \in 1..Len(datos) |-> pesos[q[k]]]
    IN creaCluster(dd, pw, Unique(Column(dd, 1)), Unique(Column(dd, 2)),
                   cluster_distance, min_cluster_size)

SamePoint(a, b) == SameMean(a[1], b[1]) /\ SameMean(a[2], b[2])
SamePointSet(ps, qs) ==
    /\ \A i \in 1..Len(ps) : \E j \in 1..Len(qs) : SamePoint(ps[i], qs[j])
    /\ \A j \in 1..Len(qs) : \E i \in 1..Len(ps) : SamePoint(ps[i], qs[j])

\* C14: in whatever order the raw point records are read, creaCluster returns
\* the same set of averaged points.
C14_ClusterOrderIndependent ==
    cl_stage = "done" =>
        \A q \in ReadOrders(Len(datos)) :
            SamePointSet(average_points, ClusteredInOrder(q))

\* the form of the points of each pass: the shared coordinate is a raw value
IsXPoint(e) == e[1][2] = 1 /\ e[1][1] \in AxisValues(1)
IsYPoint(e) == e[2][2] = 1 /\ e[2][1] \in AxisValues(2)

\* C19: the list returned is the points of the X pass followed by the points
\* of the Y pass, one point for every qualifying run of each pass, whether or
\* not the raw points of a run also qualify in the other pass.
C19_BothPassesConcatenated ==
    /\ cl_stage = "xdone" =>
          /\ Len(average_points) = NumQualifying(1)
          /\ \A k \in 1..Len(average_points) : IsXPoint(average_points[k])
    /\ cl_stage = "done" =>
          /\ Len(average_points) = NumQualifying(1) + NumQualifying(2)
          /\ \A k \in 1..Len(average_points) :
                IF k <= NumQualifying(1) THEN IsXPoint(average_points[k])
                                         ELSE IsYPoint(average_points[k])

\* the runs of size 1 of value v on an axis, as the other coordinate of their
\* single point
SingleRuns(axis, v) ==
    LET ys == SortedOthers(axis, v)
    IN {ys[i] : i \in {j \in RunStarts(ys, cluster_distance) :
                          RunEnd(ys, cluster_distance, j) = j}}

\* the raw point with coordinate v on `axis` and o on the other axis
RawAt(axis, v, o) == IF axis = 1 THEN << <<v, 1>>, <<o, 1>> >> ELSE << <<o, 1>>, <<v, 1>> >>

\* C20: a run of size 1 gives no point when min_cluster_size > 1; when
\* min_cluster_size <= 1 it gives a point equal to its single raw point,
\* whether other points share its X (or Y) value or it is alone with it.
C20_SingleRuns ==
    /\ cl_stage = "xdone" =>
          \A x \in AxisValues(1) : \A y \in SingleRuns(1, x) :
              (min_cluster_size <= 1) <=>
                  (\E k \in 1..Len(average_points) :
                      SamePoint(average_points[k], RawAt(1, x, y)))
    /\ (cl_stage = "done" /\ min_cluster_size <= 1) =>
          \A axis \in {1, 2} : \A v \in AxisValues(axis) : \A o \in SingleRuns(axis, v) :
              \E k \in 1..Len(average_points) :
                  SamePoint(average_points[k], RawAt(axis, v, o))

(***************************************************************************)
(* Claims on computeWeights (SpecWeights)                                  *)
(***************************************************************************)
\* the centre cell; a matrix of even side has four cells around its centre
CentreCells == {(Side - 1) \div 2, Side \div 2} \X {(Side - 1) \div 2, Side \div 2}

\* C10: for any odd kernel_size and any ppp >= 1 the matrix computeWeights
\* returns is symmetric under a rotation of 180 degrees about its centre,
\* cell (i, j) equal to cell (N-1-i, N-1-j), and its centre cell holds the
\* maximum of the matrix.
C10_WeightsSymmetricCentreMax ==
    wm_stage = "done" =>
        /\ \A i, j \in 0..(Side - 1) :
              wm[<<i, j>>] = wm[<<Side - 1 - i, Side - 1 - j>>]
        /\ \A ctr \in CentreCells : \A i, j \in 0..(Side - 1) :
              wm[ctr] >= wm[<<i, j>>]

\* the matrix of kernel 3 and ppp 4 (the values the scene functions use) is
\* returned: its corners are smaller than its centre cells and equal to each
\* other
C10_Witness ==
    /\ wm_stage = "done"
    /\ kernel = 3 /\ ppp = 4
    /\ wm[<<0, 0>>] < wm[<<5, 5>>]
    /\ wm[<<0, 11>>] = wm[<<11, 0>>]

(***************************************************************************)
(* Claims on removeByAngle (SpecAngle)                                     *)
(***************************************************************************)
\* The turning angle of the claim at path position k (2 .. Len-1): successor
\* direction minus predecessor direction, normalized into [0, 360).
NormalizedTurn(k) ==
    ( atan2(puntos[k + 1][2] - puntos[k][2], puntos[k + 1][1] - puntos[k][1])
    - atan2(puntos[k - 1][2] - puntos[k][2], puntos[k - 1][1] - puntos[k][1]) )
    % FullTurn

Interior == 2..(Len(puntos) - 1)

\* the interior positions whose turning angle is >= the tolerance, ascending
RECURSIVE KeptFrom(_)
KeptFrom(k) ==
    IF k > Len(puntos) - 1 THEN <<>>
    ELSE (IF NormalizedTurn(k) >= tol_rba * Micro THEN <<puntos[k]>> ELSE <<>>)
         \o KeptFrom(k + 1)

Passing ==
    {1, Len(puntos)} \cup {k \in Interior : NormalizedTurn(k) >= tol_rba * Micro}

\* C27: for a path of two or more points the result is the path with some
\* interior points left out: same order, same first and last point, between
\* 2 and Len(puntos) points; an interior point is in it exactly when the
\* angle at it between its predecessor and successor in the input path
\* reaches the tolerance, whether or not those neighbours were dropped.
C27_SubsequenceByOriginalNeighbours ==
    (ra_stage = "done" /\ Len(puntos) >= 2) =>
        /\ Len(final_points) >= 2
        /\ Len(final_points) <= Len(puntos)
        /\ final_points[1] = puntos[1]
        /\ final_points[Len(final_points)] = puntos[Len(puntos)]
        /\ Len(final_points) = Cardinality(Passing)
        /\ \A i \in 1..Len(final_points) :
              final_points[i] = puntos[Ascending(Passing)[i]]

\* the second point was dropped and the third, whose predecessor it is, kept;
\* measured from the first point the third would have been dropped
C27_Witness ==
    /\ ra_stage = "done"
    /\ Len(puntos) = 4
    /\ \A i, j \in 1..4 : i # j => puntos[i] # puntos[j]
    /\ Passing = {1, 3, 4}
    /\ final_points = <<puntos[1], puntos[3], puntos[4]>>
    /\ TurnAngle(puntos[1], puntos[3], puntos[4]) < tol_rba * Micro

\* the two directions at path position k: towards the predecessor and towards
\* the successor
TowardsPrev(k) == <<puntos[k - 1][1] - puntos[k][1], puntos[k - 1][2] - puntos[k][2]>>
TowardsNext(k) == <<puntos[k + 1][1] - puntos[k][1], puntos[k + 1][2] - puntos[k][2]>>
Dot(u, w) == u[1] * w[1] + u[2] * w[2]
Cross(u, w) == u[1] * w[2] - u[2] * w[1]
\* predecessor, point and successor lie on one line, the point between them
StraightAt(k) ==
    Cross(TowardsPrev(k), TowardsNext(k)) = 0 /\ Dot(TowardsPrev(k), TowardsNext(k)) < 0
\* the path turns by exactly 90 degrees at the point, to either side
RightAngleAt(k) ==
    /\ Dot(TowardsPrev(k), TowardsPrev(k)) > 0
    /\ Dot(TowardsNext(k), TowardsNext(k)) > 0
    /\ Dot(TowardsPrev(k), TowardsNext(k)) = 0

\* C12: with tolerance 150 a path of three or more points that is straight at
\* every interior point is returned whole, and a path that turns by exactly
\* 90 degrees at every interior point is returned as its first and last point
\* only, to whichever side it turns and in whichever direction it is walked.
C12_StraightKeptRightAngleDropped ==
    (ra_stage = "done" /\ tol_rba = 150 /\ Len(puntos) >= 3) =>
        /\ (\A k \in Interior : StraightAt(k)) => final_points = puntos
        /\ (\A k \in Interior : RightAngleAt(k)) =>
              final_points = <<puntos[1], puntos[Len(puntos)]>>

(***************************************************************************)
(* Claims about cleanPoints2, makePointShp and makeLineShp (SpecClean).    *)
(***************************************************************************)
\* the features of a shapefile that carry a BEACH_CODE
WithCode(shp, code) == SelectSeq(shp, LAMBDA ft : ft.BEACH_CODE = code)
Geoms(fts) == [k \in 1..Len(fts) |-> fts[k].geom]
\* the entries of clean_geometries that carry an identifier
EntriesFor(code) == SelectSeq(clean_geometries, LAMBDA en : en[2] = code)
NothingFor(code) ==
    /\ EntriesFor(code) = <<>>
    /\ WithCode(cp_shp, code) = <<>>
    /\ WithCode(cl_shp, code) = <<>>
\* the values of i whose iteration completed the try body
Cleaned == (0..(grp_i - 1)) \ caught

\* C5: a group with fewer than four points puts nothing in clean_geometries
\* nor in either output shapefile.
C5_SmallGroupEmitsNothing ==
    \A k \in 1..Len(groups) : Len(groups[k]) < 4 => NothingFor(identifiers[k])

\* C7: whatever the BEACH_CODE values of the layer, 0 is never an identifier
\* of a group and nothing with BEACH_CODE 0 reaches clean_geometries or an
\* output shapefile.
C7_ZeroNeverGrouped ==
    /\ \A k \in 1..Len(identifiers) : identifiers[k] # 0
    /\ NothingFor(0)

\* C8: a group whose try body raised contributes no entry, no point and no
\* line; every other group has exactly one entry and, once the shapefiles are
\* written, one line; cleanPoints2 never stops because of a group: it only
\* stops on a layer without features, before any group exists.
C8_FailedGroupContributesNothing ==
    /\ \A i \in caught : NothingFor(identifiers[i + 1])
    /\ \A i \in Cleaned : Len(EntriesFor(identifiers[i + 1])) = 1
    /\ cp_stage \in {"points", "done"} => grp_i = Len(groups)
    /\ cp_stage = "done" =>
          \A i \in Cleaned : Len(WithCode(cl_shp, identifiers[i + 1])) = 1
    /\ cp_stage = "crashed" => layer = <<>> /\ groups = <<>> /\ caught = {}

\* every identifier is positive, a group raised, a later group of four or more
\* points was cleaned, and both files are written
C8_Witness ==
    /\ cp_stage = "done"
    /\ \A k \in 1..Len(identifiers) : identifiers[k] > 0
    /\ \E i \in caught : \E j \in Cleaned :
          /\ i < j
          /\ Len(groups[j + 1]) >= 4
          /\ WithCode(cp_shp, identifiers[j + 1]) # <<>>

\* C9: once both shapefiles are written, each cleaned group has exactly one
\* line whose vertices are the group's clean_points in order; the points with
\* the group's BEACH_CODE in the point shapefile are those same points in the
\* same order; each of them is a point the layer holds under that BEACH_CODE;
\* and no feature of either shapefile belongs to anything but a cleaned group.
C9_OneLinePerCleanedGroup ==
    cp_stage = "done" =>
        /\ \A i \in Cleaned :
              LET id == identifiers[i + 1]
                  lines == WithCode(cl_shp, id)
                  verts == Geoms(WithCode(cp_shp, id))
              IN /\ Len(lines) = 1
                 /\ Len(EntriesFor(id)) = 1
                 /\ lines[1].geom = EntriesFor(id)[1][1]
                 /\ verts = lines[1].geom
                 /\ \A v \in 1..Len(verts) :
                       \E n \in 1..Len(layer) :
                           layer[n].geom = verts[v] /\ layer[n].BEACH_CODE = id
        /\ Len(cl_shp) = Cardinality(Cleaned)
        /\ \A k \in 1..Len(cp_shp) :
              \E i \in Cleaned : cp_shp[k].BEACH_CODE = identifiers[i + 1]

\* no group has identifier 0, two groups were cleaned, one of them after a
\* group that raised, and one line has an interior vertex
C9_Witness ==
    /\ cp_stage = "done"
    /\ \A k \in 1..Len(identifiers) : identifiers[k] # 0
    /\ Len(cl_shp) >= 2
    /\ \E i \in caught : \E j \in Cleaned : i < j
    /\ \E k \in 1..Len(cl_shp) : Len(cl_shp[k].geom) >= 3

\* no element of the sequence occurs twice
NoRepeat(sq) == \A u, v \in 1..Len(sq) : u # v => sq[u] # sq[v]

\* C28: for every cleaned group the index path of computeLST holds no index
\* twice and only indices of the group's points; every cleaned point is a
\* point the layer holds under the BEACH_CODE of that group, none occurs
\* twice, and there are no more of them than the group has points.
C28_CleanedPointsAreGroupPoints ==
    /\ \A i \in Cleaned :
          LET points == Coordinates(groups[i + 1])
          IN \A lst \in computeLST(Delaunay(points), points) :
                /\ NoRepeat(lst)
                /\ \A k \in 1..Len(lst) : lst[k] \in 0..(Len(points) - 1)
    /\ \A e \in 1..Len(clean_geometries) :
          LET clean_points == clean_geometries[e][1]
              id == clean_geometries[e][2]
          IN /\ NoRepeat(clean_points)
             /\ \A v \in 1..Len(clean_points) :
                   \E n \in 1..Len(layer) :
                       /\ layer[n].geom = clean_points[v]
                       /\ layer[n].BEACH_CODE = id
             /\ Len(clean_points) <= Len(WithCode(layer, id))

\* two groups with positive identifiers were cleaned, and one of them lost a
\* point to the path or the angle filter
C28_Witness ==
    /\ cp_stage = "done"
    /\ Len(clean_geometries) >= 2
    /\ \A e \in 1..Len(clean_geometries) : clean_geometries[e][2] > 0
    /\ \E e \in 1..Len(clean_geometries) :
          /\ Len(clean_geometries[e][1]) >= 3
          /\ Len(clean_geometries[e][1]) < Len(WithCode(layer, clean_geometries[e][2]))

(***************************************************************************)
(* Claims on computeLST (SpecLST)                                          *)
(*                                                                         *)
(* Distances along the tree are sums of rounded edge weights; each edge is *)
(* off by at most half a millionth, so two sums that differ by more than   *)
(* the number of nodes differ in exact arithmetic too. A node counts as    *)
(* farthest when no node is farther by more than that allowance.           *)
(***************************************************************************)
LstNodes == 0..(Len(lst_points) - 1)
Allowance == Len(lst_points)

\* the length of the tree path between nodes a and b
TreeDist(a, b) ==
    LET path == dijkstra_path(lst_mst, a, b)
    IN SumSeq([k \in 1..(Len(path) - 1) |->
                  dist(lst_points[path[k] + 1], lst_points[path[k + 1] + 1])])

FarthestFrom(s) ==
    {n \in LstNodes : \A m \in LstNodes : TreeDist(s, n) + Allowance >= TreeDist(s, m)}

\* C11: the two endpoints are mutually farthest in the tree metric, each a
\* farthest node from the other, and the search started at indice2 can end
\* at indice1 again.
C11_EndpointsMutuallyFarthest ==
    lst_stage \in {"second", "done"} =>
        /\ lst_indice2 \in FarthestFrom(lst_indice1)
        /\ lst_indice1 \in FarthestFrom(lst_indice2)
        /\ lst_indice1 \in LastKeys(lst_mst, lst_indice2)

\* C16: indice1 is a node at the greatest tree distance from the start node 1,
\* indice2 a node at the greatest tree distance from indice1, and the path
\* between them is a longest path of the tree.
C16_EndpointsAtGreatestDistance ==
    /\ lst_stage \in {"first", "second", "done"} => lst_indice1 \in FarthestFrom(1)
    /\ lst_stage \in {"second", "done"} =>
          /\ lst_indice2 \in FarthestFrom(lst_indice1)
          /\ \A a, b \in LstNodes :
                TreeDist(a, b) <= TreeDist(lst_indice1, lst_indice2) + Allowance

\* the edge between two nodes, as the model writes edges
EdgeOf(a, b) == IF a < b THEN <<a, b>> ELSE <<b, a>>

\* C17: final starts at indice1, ends at indice2, each consecutive pair is an
\* edge of MST and no node occurs twice; MST is a spanning tree of the graph
\* of the triangles, and a minimum one: every edge left out is at least as
\* long as each tree edge on the path between its two nodes.
C17_PathFollowsSpanningTree ==
    /\ lst_stage \in {"mst", "first", "second", "done"} =>
          /\ lst_mst \subseteq GraphEdges(lst_tri)
          /\ Cardinality(lst_mst) = Len(lst_points) - 1
          /\ \A n \in LstNodes : PathsFrom(lst_mst, 1, n, {1}) # {}
          /\ \A e \in GraphEdges(lst_tri) \ lst_mst :
                LET path == dijkstra_path(lst_mst, e[1], e[2])
                IN \A k \in 1..(Len(path) - 1) :
                      dist2(lst_points[path[k] + 1], lst_points[path[k + 1] + 1])
                          <= dist2(lst_points[e[1] + 1], lst_points[e[2] + 1])
    /\ lst_stage = "done" =>
          /\ lst_final[1] = lst_indice1
          /\ lst_final[Len(lst_final)] = lst_indice2
          /\ \A k \in 1..(Len(lst_final) - 1) :
                EdgeOf(lst_final[k], lst_final[k + 1]) \in lst_mst
          /\ \A j, k \in 1..Len(lst_final) : j # k => lst_final[j] # lst_final[k]
          /\ PathsFrom(lst_mst, lst_indice1, lst_indice2, {lst_indice1}) = {lst_final}

\* a path of four or more nodes was returned for a graph with an edge that is
\* not in MST
C17_Witness ==
    /\ lst_stage = "done"
    /\ Len(lst_final) >= 4
    /\ GraphEdges(lst_tri) \ lst_mst # {}

(***************************************************************************)
(* Claims on mejor_curva_pendiente3 (SpecBranch)                           *)
(***************************************************************************)
BranchIndices == 0..(Len(contours) - 1)
\* the branches whose mean score no other branch exceeds
BestBranches ==
    {i \in BranchIndices :
        \A j \in BranchIndices :
            SumSeq(contours[i + 1]) * Len(contours[j + 1])
                >= SumSeq(contours[j + 1]) * Len(contours[i + 1])}

\* C15 as stated: the branch returned has the highest mean score and, among
\* the branches that tie for it, the lowest index.
C15_HighestMeanFirstOnTie ==
    mc_stage = "done" =>
        /\ candidate \in BestBranches
        /\ \A i \in BestBranches : candidate <= i

\* C15 amended: the branch returned has the highest mean score and, among the
\* branches that tie for it, the highest index (the one seen last).
C15_HighestMeanLastOnTie ==
    mc_stage = "done" =>
        /\ candidate \in BestBranches
        /\ \A i \in BestBranches : candidate >= i

\* three branches were scanned, two of different length tie for the highest
\* mean and a third is worse
C15_Witness ==
    /\ mc_stage = "done"
    /\ Len(contours) = 3
    /\ Cardinality(BestBranches) = 2
    /\ \E i, j \in BestBranches : Len(contours[i + 1]) # Len(contours[j + 1])

(***************************************************************************)
(* Claims on deriva and the Laplacian (SpecDeriva)                         *)
(*                                                                         *)
(* polyval2d belongs to the module polynomial, which is not among the      *)
(* sources. It is taken as the claim reads a coefficient matrix: entry     *)
(* [i][j] is the coefficient of x^j * y^i. The derivatives of a polynomial *)
(* are then known from its values alone: for degree <= 4 in a variable,    *)
(*   12*p'(t) = -p(t+2) + 8*p(t+1) - 8*p(t-1) + p(t-2)                     *)
(* and for degree <= 3,  p''(t) = p(t+1) - 2*p(t) + p(t-1).                *)
(***************************************************************************)
RECURSIVE Pow(_, _)
Pow(b, e) == IF e = 0 THEN 1 ELSE b * Pow(b, e - 1)

polyval2d(px, py, mm) ==
    SumSeq([i \in 1..Len(mm) |->
              SumSeq([j \in 1..Len(mm[i]) |->
                        mm[i][j] * Pow(px, j - 1) * Pow(py, i - 1)])])

EvalPoints == {-1, 0, 2}

\* entry [i][j] of a matrix, rows and columns from 0, zero outside it
Entry(mm, i, j) == IF i < Len(mm) /\ j < Len(mm[1]) THEN mm[i + 1][j + 1] ELSE 0
SameShape(a, b) == Len(a) = Len(b) /\ \A i \in 1..Len(a) : Len(a[i]) = Len(b[i])
Rows0(mm) == 0..(Len(mm) - 1)
Cols0(mm) == 0..(Len(mm[1]) - 1)

\* C22: deriva(m,'x') has the shape of m and entry [i][j] = (j+1)*m[i][j+1]
\* with a last column of zeros, and is the x-derivative of the polynomial of
\* m; deriva(m,'y') has entry [i][j] = (i+1)*m[i+1][j] with a last row of
\* zeros and is the y-derivative; laplaciano is the sum of the two unmixed
\* second partial derivatives.
C22_DerivaAndLaplacian ==
    /\ dv_stage \in {"dx", "d2x", "dy", "d2y", "done"} =>
          /\ SameShape(dv_dx, dv_m)
          /\ \A i \in Rows0(dv_m), j \in Cols0(dv_m) :
                Entry(dv_dx, i, j) = (j + 1) * Entry(dv_m, i, j + 1)
          /\ \A px \in EvalPoints, py \in EvalPoints :
                12 * polyval2d(px, py, dv_dx) =
                    - polyval2d(px + 2, py, dv_m) + 8 * polyval2d(px + 1, py, dv_m)
                    - 8 * polyval2d(px - 1, py, dv_m) + polyval2d(px - 2, py, dv_m)
    /\ dv_stage \in {"dy", "d2y", "done"} =>
          /\ SameShape(dv_dy, dv_m)
          /\ \A i \in Rows0(dv_m), j \in Cols0(dv_m) :
                Entry(dv_dy, i, j) = (i + 1) * Entry(dv_m, i + 1, j)
          /\ \A px \in EvalPoints, py \in EvalPoints :
                12 * polyval2d(px, py, dv_dy) =
                    - polyval2d(px, py + 2, dv_m) + 8 * polyval2d(px, py + 1, dv_m)
                    - 8 * polyval2d(px, py - 1, dv_m) + polyval2d(px, py - 2, dv_m)
    /\ dv_stage = "done" =>
          /\ laplaciano = MatrixSum(deriva(deriva(dv_m, "x"), "x"),
                                    deriva(deriva(dv_m, "y"), "y"))
          /\ \A i \in Rows0(dv_m), j \in Cols0(dv_m) :
                Entry(laplaciano, i, j) =
                    (j + 1) * (j + 2) * Entry(dv_m, i, j + 2)
                    + (i + 1) * (i + 2) * Entry(dv_m, i + 2, j)
          /\ \A px \in EvalPoints, py \in EvalPoints :
                polyval2d(px, py, laplaciano) =
                    (polyval2d(px + 1, py, dv_m) - 2 * polyval2d(px, py, dv_m)
                       + polyval2d(px - 1, py, dv_m))
                    + (polyval2d(px, py + 1, dv_m) - 2 * polyval2d(px, py, dv_m)
                       + polyval2d(px, py - 1, dv_m))

\* a cubic in both variables whose Laplacian is not zero
C22_Witness ==
    /\ dv_stage = "done"
    /\ Len(dv_m) = 4
    /\ dv_m[4][2] # 0
    /\ dv_m[2][3] # 0
    /\ \E i \in 1..4, j \in 1..4 : laplaciano[i][j] # 0

(***************************************************************************)
(* Claims on escribeCoords and the weight lookup (SpecCoords)              *)
(***************************************************************************)
\* C24 as the specification writes it: for every vertex one record with
\* world_x = band_origin_x + (col - kernel_size/2)*pixel_size + local_x and
\* world_y = band_origin_y_max - (row - kernel_size/2)*pixel_size - local_y,
\* kernel_size/2 being half the kernel size (1.5 for 3). Both sides are
\* doubled to stay in whole numbers.
C24_WorldCoordsHalfKernel ==
    /\ ec_stage = "done" => Len(output_file) = Len(ec_x)
    /\ \A k \in 1..Len(output_file) :
          /\ 2 * output_file[k][1] =
                 2 * ec_xmin + (2 * ec_col - ec_kernel) * resol_orig(ec_ppp)
                   + 2 * ec_x[k]
          /\ 2 * output_file[k][2] =
                 2 * ec_ymax - (2 * ec_fil - ec_kernel) * resol_orig(ec_ppp)
                   - 2 * ec_y[k]

\* C24, amended: for every vertex one record with
\* world_x = band_origin_x + (col - g)*pixel_size + local_x and
\* world_y = band_origin_y_max - (row - g)*pixel_size - local_y, where g is
\* kernel_size/2 cut to a whole number, (kernel_size - 1)/2 for the odd kernel
\* sizes: the offset of the first column and row of the window.
C24_WorldCoordsWindowOrigin ==
    /\ ec_stage = "done" => Len(output_file) = Len(ec_x)
    /\ Len(output_file) = ec_i
    /\ \A k \in 1..Len(output_file) :
          /\ 2 * output_file[k][1] =
                 2 * ec_xmin + (2 * ec_col - (ec_kernel - 1)) * resol_orig(ec_ppp)
                   + 2 * ec_x[k]
          /\ 2 * output_file[k][2] =
                 2 * ec_ymax - (2 * ec_fil - (ec_kernel - 1)) * resol_orig(ec_ppp)
                   - 2 * ec_y[k]

\* two vertices written for a kernel of 5 pixels
C24_Witness ==
    /\ ec_stage = "done"
    /\ ec_kernel = 5
    /\ Len(output_file) = 2
    /\ ec_x[1] # ec_x[2]
    /\ ec_y[1] # ec_y[2]

\* the cell of the upsampled grid that holds the point (lx, ly): <<row, column>>
CellOf(lx, ly) ==
    <<CHOOSE r \in 0..(ec_kernel * ec_ppp - 1) : r * resol <= ly /\ ly < (r + 1) * resol,
      CHOOSE q \in 0..(ec_kernel * ec_ppp - 1) : q * resol <= lx /\ lx < (q + 1) * resol>>

\* C26: for every vertex between the first and the last sample of the grid
\* the lookup wm[int(x/resol), int(y/resol)] stays inside the matrix (indices
\* 0..N-1, N = kernel*ppp) and gives the weight of the cell that holds the
\* vertex, row int(y/resol) and column int(x/resol), the matrix being equal
\* to its transpose.
C26_WeightOfContainingCell ==
    /\ ec_stage # "raised"
    /\ \A k \in 1..Len(output_file) :
          /\ ec_x[k] \div resol \in 0..(ec_kernel * ec_ppp - 1)
          /\ ec_y[k] \div resol \in 0..(ec_kernel * ec_ppp - 1)
          /\ output_file[k][3] = computeWeights(ec_kernel, ec_ppp)[CellOf(ec_x[k], ec_y[k])]
    /\ ec_stage # "idle" =>
          \A cell \in DOMAIN computeWeights(ec_kernel, ec_ppp) :
              computeWeights(ec_kernel, ec_ppp)[cell] =
                  computeWeights(ec_kernel, ec_ppp)[<<cell[2], cell[1]>>]

\* a vertex at the last sample in x and the first in y: the two indices differ
C26_Witness ==
    /\ ec_stage = "done"
    /\ \E k \in 1..Len(output_file) :
          /\ ec_x[k] = 2 * ec_kernel * ec_ppp - 1
          /\ ec_y[k] = 1
          /\ ec_ppp >= 2

====
